---- MODULE Spec2Model ----
(***************************************************************************)
(* Aave V3 liquidation indexer: the scan pass of                           *)
(* tools/aave_v3_liquidations_scanner.py (main), the conditional CSV       *)
(* append of tools/csv_utils.py and the price resolver                     *)
(* (get_aave_asset_price, ChainlinkPriceFetcher.get_price_for_block).      *)
(***************************************************************************)
EXTENDS Integers, Sequences, FiniteSets, TLC

VARIABLES
    chain,            \* the LiquidationCall logs the chain holds, in chain order
    head,             \* w3.eth.block_number: the current tip of the chain
    csv,              \* data dir -> liquidations_master.csv
    lock,             \* data dir -> holder of the exclusive file lock (0 = free)
    status_file,      \* data dir -> data/scan_status.json
    checkpoint_file,  \* data dir -> data/scanner_checkpoint.json
    fs,               \* scanner process -> the data dir it works on
    scanner,          \* scanner process -> local variables of main()
    px                \* one call of get_aave_asset_price (price resolver)

vars == <<chain, head, csv, lock, status_file, checkpoint_file, fs, scanner, px>>

-----------------------------------------------------------------------------
(* Program constants *)

FROM_BLOCK == 16000000
MAX_VALID_BLOCK == 50000000
INITIAL_BATCH_SIZE == 1000
MIN_BATCH_SIZE == 500
MAX_BATCH_SIZE == 10000
MAX_CONSECUTIVE_ERRORS == 3
SCAN_INTERVAL == 60      \* time.sleep(60) of the scheduler thread (app.py)
EXPECTED_CHAIN_ID == 1   \* chain_id of the ethereum entry (config.py)

\* The modelled columns of CSV_FIELD_ORDER, in the order of the source.
CSV_FIELD_ORDER ==
    << "block", "collateral_price_usd_at_block", "debt_price_usd_at_block",
       "collateral_value_usd", "debt_value_usd", "tx" >>

-----------------------------------------------------------------------------
(* Bounds of the model *)

MaxPasses == 2          \* scan passes started per scanner process
NumLogs == 3            \* LiquidationCall logs on the chain
MaxFailures == 3        \* failed get_logs requests counted per pass
NumEndpoints == 2       \* RPC endpoints configured for the chain
MaxErrorCount == 4      \* ProviderState.error_count is counted up to here
MaxBlock == 6           \* highest block of a get_logs_chunked range

Procs == {1, 2}
DataDirs == {1, 2}

\* Block offsets (from FROM_BLOCK) at which logs may lie, and the tips.
LogOffsets == {100, 700, 1500}
HeadOffsets == <<700, 1500>>

-----------------------------------------------------------------------------
(* Generic helpers *)

Range(s) == {s[i] : i \in DOMAIN s}

SetMax(S) == CHOOSE x \in S : \A y \in S : y <= x

SetMin(S) == CHOOSE x \in S : \A y \in S : x <= y

Min2(a, b) == IF a <= b THEN a ELSE b

Max2(a, b) == IF a >= b THEN a ELSE b

-----------------------------------------------------------------------------
(* CSV cells.  A numeric or text cell is <<v>>, the empty string is <<>>.   *)
(* A tx cell is [id, upper]: the hash and whether its hex digits are       *)
(* written in upper case; id 0 is the empty string.                        *)

Empty == << >>

Num(n) == << n >>

NoTx == [id |-> 0, upper |-> FALSE]

\* a comparison that keeps the case of the hex digits
KeepCase(tx) == tx

\* str.lower() on a tx cell
Lower(tx) == [tx EXCEPT !.upper = FALSE]

\* "0x" + raw_tx.hex(): HexBytes.hex() yields lower-case digits
TxHash(raw) == [id |-> raw, upper |-> FALSE]

NoFile == [exists |-> FALSE, header |-> << >>, rows |-> << >>]

\* csv.DictReader: a cell is found under its column name in the header line;
\* a column the header does not name reads as None (here: the empty value).
TxOf(file, r) == IF "tx" \in Range(file.header) THEN r.tx ELSE NoTx

BlockOf(file, r) == IF "block" \in Range(file.header) THEN r.block ELSE 0

\* The rows DictReader yields.  Its field names are the first line of the
\* file: the header line, or, in a file written without one, the first data
\* line, which is then not yielded as a row.
DictRows(file) ==
    IF ~file.exists THEN << >>
    ELSE IF file.header # << >> THEN file.rows
    ELSE IF file.rows = << >> THEN << >>
    ELSE Tail(file.rows)

\* os.path.exists(p) and os.path.getsize(p) > 0
NonEmptyFile(file) == file.exists /\ (file.header # << >> \/ file.rows # << >>)

\* master_csv_manager.ensure_master_csv_exists
EnsureMasterCsvExists(file) ==
    IF file.exists THEN file
    ELSE [exists |-> TRUE, header |-> CSV_FIELD_ORDER, rows |-> << >>]

\* a rewrite that keeps every cell where it was
ReconcileByPosition(file) ==
    IF ~file.exists \/ file.header = CSV_FIELD_ORDER THEN file
    ELSE [exists |-> TRUE, header |-> CSV_FIELD_ORDER, rows |-> DictRows(file)]

\* reconcile_master_csv_header: a file whose header is not the canonical one is
\* rewritten with the canonical header, its rows remapped by column name.
ReconcileMasterCsvHeader(file) ==
    IF ~file.exists \/ file.header = CSV_FIELD_ORDER THEN file
    ELSE LET rows == DictRows(file)
             has(c) == c \in Range(file.header)
         IN  [exists |-> TRUE,
              header |-> CSV_FIELD_ORDER,
              rows |-> [i \in DOMAIN rows |->
                  [block |-> IF has("block") THEN rows[i].block ELSE 0,
                   collateral_price_usd_at_block |->
                       IF has("collateral_price_usd_at_block")
                       THEN rows[i].collateral_price_usd_at_block ELSE Empty,
                   debt_price_usd_at_block |->
                       IF has("debt_price_usd_at_block")
                       THEN rows[i].debt_price_usd_at_block ELSE Empty,
                   collateral_value_usd |->
                       IF has("collateral_value_usd")
                       THEN rows[i].collateral_value_usd ELSE Empty,
                   debt_value_usd |->
                       IF has("debt_value_usd")
                       THEN rows[i].debt_value_usd ELSE Empty,
                   tx |-> IF has("tx") THEN rows[i].tx ELSE NoTx]]]

-----------------------------------------------------------------------------
(* CheckpointStore: the resume block, read from the CSV (main, lines 913-955) *)

\* the blocks the resume scan accepts: int(row['block']) that is non-zero and
\* below MAX_VALID_BLOCK
ValidBlocks(file) ==
    {BlockOf(file, r) : r \in Range(DictRows(file))} \cap 1..(MAX_VALID_BLOCK - 1)

MaxBlockSeen(file) ==
    IF NonEmptyFile(file) /\ ValidBlocks(file) # {} THEN SetMax(ValidBlocks(file)) ELSE 0

CsvRowCount(file) == IF NonEmptyFile(file) THEN Len(DictRows(file)) ELSE 0

\* a resume at the highest block of the CSV itself
ResumeAtMaxBlock(file) ==
    IF MaxBlockSeen(file) # 0 /\ CsvRowCount(file) > 0
    THEN MaxBlockSeen(file)
    ELSE FROM_BLOCK

\* a pass that always scans from the first block again
ResumeFromStart(file) == FROM_BLOCK

ResumeBlock(file) ==
    IF MaxBlockSeen(file) # 0 /\ CsvRowCount(file) > 0
    THEN MaxBlockSeen(file) + 1
    ELSE FROM_BLOCK

\* is_first_scan is false and csv_row_count is kept only on the resume branch
ResumeRowCount(file) ==
    IF MaxBlockSeen(file) # 0 /\ CsvRowCount(file) > 0 THEN CsvRowCount(file) ELSE 0

\* status_from_block: min over the rows with a truthy block cell
StatusFromBlock(file) ==
    LET blocks == {BlockOf(file, r) : r \in Range(DictRows(file))} \ {0}
    IN  IF NonEmptyFile(file) /\ blocks # {} THEN SetMin(blocks) ELSE FROM_BLOCK

\* the dedupe set loaded at pass start (main, lines 1058-1089)
LoadExistingTxs(file) ==
    IF NonEmptyFile(file)
    THEN {Lower(TxOf(file, r)) : r \in {x \in Range(DictRows(file)) : TxOf(file, x).id # 0}}
    ELSE {}

-----------------------------------------------------------------------------
(* CsvAppender: append_row_if_tx_missing (tools/csv_utils.py)               *)

\* open(csv_path, 'a').close(): creates a zero-byte file when none exists
Touch(file) == IF file.exists THEN file ELSE [NoFile EXCEPT !.exists = TRUE]

\* existing = set(lower(r[tx]) for r in DictReader(f) if r[tx])
ReadExisting(file) ==
    {Lower(TxOf(file, r)) : r \in {x \in Range(DictRows(file)) : TxOf(file, x).id # 0}}

\* DictWriter.writerow at the end of the file; a zero-byte file gets the row
\* as its first line, with no header line written before it
WriteRow(file, row) ==
    [file EXCEPT !.exists = TRUE, !.rows = Append(file.rows, row)]

\* an append that writes whatever the file holds
AppendAlways(file, existing, row) == [file |-> WriteRow(file, row), ret |-> TRUE]

\* the membership check and the write, given the tx set read under the lock
AppendDecide(file, existing, row) ==
    LET txval == Lower(row.tx)
    IN  IF txval.id = 0 THEN [file |-> WriteRow(file, row), ret |-> TRUE]
        ELSE IF txval \in existing THEN [file |-> file, ret |-> FALSE]
        ELSE [file |-> WriteRow(file, row), ret |-> TRUE]

AppendRowIfTxMissing(file, row) ==
    AppendDecide(Touch(file), ReadExisting(Touch(file)), row)

\* a lock that is granted whoever holds it
LockIgnored(d) == TRUE

\* portalocker.lock(f, EXCLUSIVE) returns only while no other holder exists
LockFree(d) == lock[d] = 0

-----------------------------------------------------------------------------
(* PriceResolver: get_aave_asset_price and                                  *)
(* ChainlinkPriceFetcher.get_price_for_block                                *)

\* What the tables of the source say about an asset:
\*   lsd          is_lsd_token(asset_address): the address is in LSD_TOKENS
\*   feed_lsd     the feed symbol is in LSD_CONTRACTS
\*   oracle_token the feed symbol is in AAVE_ORACLE_TOKENS
\*   eth_based    the feed symbol is in ETH_BASED_FEEDS
\*   stable       is_stablecoin(symbol)
AssetOf(lsd, feed_lsd, oracle_token, eth_based, stable) ==
    [lsd |-> lsd, feed_lsd |-> feed_lsd, oracle_token |-> oracle_token,
     eth_based |-> eth_based, stable |-> stable]

Assets ==
    { AssetOf(FALSE, FALSE, FALSE, FALSE, FALSE),    \* WETH, WBTC
      AssetOf(FALSE, FALSE, TRUE, FALSE, FALSE),     \* GNO, STG
      AssetOf(TRUE, TRUE, FALSE, FALSE, FALSE),      \* wstETH, rETH
      AssetOf(TRUE, FALSE, FALSE, FALSE, FALSE),     \* sUSDe, weETH, sDAI: aliased feed symbol
      AssetOf(FALSE, FALSE, FALSE, TRUE, FALSE),     \* LDO, MKR
      AssetOf(FALSE, FALSE, FALSE, FALSE, TRUE) }    \* USDC, DAI

\* One call of the resolver: the asset and what each on-chain read gives at
\* the block.
\*   oracle       getAssetPrice by asset address: "pos", "none" (0) or "error"
\*   direct       latestRoundData of the USD feed: "pos", "none" or "error"
\*   oracle_inner _get_aave_oracle_price_for_block: "pos" or "none"
\*   lsd_inner    _get_lsd_price_for_block: "capped" (price, True),
\*                "raw" (price, False) or "none" (None, False)
\*   composition  _get_eth_based_price_for_block: "pos" or "none"
\*   capo_params  _get_capo_params_from_chain returns parameters
\*   raw_lsd      get_lsd_price: "pos" or "none"
Quotes ==
    [asset : Assets,
     oracle : {"pos", "none", "error"},
     direct : {"pos", "none", "error"},
     oracle_inner : {"pos", "none"},
     lsd_inner : {"capped", "raw", "none"},
     composition : {"pos", "none"},
     capo_params : BOOLEAN,
     raw_lsd : {"pos", "none"}]

\* the price a layer returns (distinct per layer, so that a result names its
\* layer); the stablecoin layer returns 1.0
LayerPrice(name) ==
    CASE name = "aave_oracle" -> 7
      [] name = "chainlink_usd" -> 6
      [] name = "capo_lsd" -> 5
      [] name = "raw_lsd" -> 4
      [] name = "eth_composition" -> 3
      [] name = "stablecoin" -> 1

Layer(name, applies, out) == [name |-> name, applies |-> applies, out |-> out]

\* The ladder of tries: a layer that does not apply is not consulted; a
\* consulted layer returns its price, raises out of the function, or falls
\* through to the next one.
RECURSIVE TryLayers(_, _)
TryLayers(layers, trace) ==
    IF layers = << >> THEN [kind |-> "none", v |-> 0, trace |-> trace]
    ELSE LET l == Head(layers)
         IN  IF ~l.applies THEN TryLayers(Tail(layers), trace)
             ELSE IF l.out = "pos"
             THEN [kind |-> "price", v |-> LayerPrice(l.name), trace |-> Append(trace, l.name)]
             ELSE IF l.out = "raise"
             THEN [kind |-> "raise", v |-> 0, trace |-> Append(trace, l.name)]
             ELSE TryLayers(Tail(layers), Append(trace, l.name))

\* get_price_for_block: direct USD feed, Aave oracle by symbol, LSD with cap,
\* LSD without cap, ETH-based composition.  Every read is inside a try.
PriceForBlockLayers(q) ==
    << Layer("chainlink_usd", TRUE, IF q.direct = "pos" THEN "pos" ELSE "none"),
       Layer("aave_oracle", q.asset.oracle_token, q.oracle_inner),
       Layer("capo_lsd", q.asset.feed_lsd, IF q.lsd_inner = "capped" THEN "pos" ELSE "none"),
       Layer("raw_lsd", q.asset.feed_lsd, IF q.lsd_inner = "raw" THEN "pos" ELSE "none"),
       Layer("eth_composition", q.asset.eth_based, q.composition) >>

GetPriceForBlock(q) == TryLayers(PriceForBlockLayers(q), << >>)

\* The CAPO branch of get_aave_asset_price (lines 710-756): with parameters
\* found, line 720 reads LSD_CONTRACTS, a name the module neither defines nor
\* imports; the handler of that NameError calls rotate_provider, which is not
\* defined either, and the second NameError leaves the function.
CapoBranch(capo_params) == IF capo_params THEN "raise" ELSE "none"

\* get_aave_asset_price (lines 611-779).  An error of the oracle read ends in
\* the outer except of lines 679-680 (rotate_provider raises NameError there
\* too), so the layer is tried once and falls through.
AaveAssetPriceLayers(q) ==
    << Layer("aave_oracle", TRUE, IF q.oracle = "pos" THEN "pos" ELSE "none") >>
    \o PriceForBlockLayers(q)
    \o << Layer("capo_lsd", q.asset.lsd, CapoBranch(q.capo_params)),
          Layer("raw_lsd", q.asset.lsd, q.raw_lsd),
          Layer("stablecoin", TRUE, IF q.asset.stable THEN "pos" ELSE "none") >>

GetAaveAssetPrice(q) == TryLayers(AaveAssetPriceLayers(q), << >>)

-----------------------------------------------------------------------------
(* Event enrichment: the row main() builds for one log (lines 1226-1331)   *)

\* price_x after the try block: result if it is not None and > 0, else 0
PrimaryPrice(res) == IF res.kind = "price" /\ res.v > 0 THEN res.v ELSE 0

\* the stablecoin fallback of main (lines 1247-1254, 1269-1276)
FallbackPrice(price, stable) == IF price = 0 /\ stable THEN 1 ELSE price

\* a price cell that prints a missing price as 0
ZeroCell(price) == Num(price)

\* f"{price:.8f}" if price else ''
PriceCell(price) == IF price # 0 THEN Num(price) ELSE Empty

\* round(tokens * price, 2) only when both prices are available
ValueCell(tokens, price, price_collateral, price_debt) ==
    IF price_collateral > 0 /\ price_debt > 0 THEN Num(tokens * price) ELSE Empty

\* price_collateral / price_debt of main for one asset of the event
EventPrice(q) == FallbackPrice(PrimaryPrice(GetAaveAssetPrice(q)), q.asset.stable)

EventRow(raw) ==
    LET price_collateral == EventPrice(raw.collateral)
        price_debt == EventPrice(raw.debt)
    IN  [block |-> raw.blockNumber,
         collateral_price_usd_at_block |-> PriceCell(price_collateral),
         debt_price_usd_at_block |-> PriceCell(price_debt),
         collateral_value_usd |->
             ValueCell(raw.collateralAmount, price_collateral, price_collateral, price_debt),
         debt_value_usd |->
             ValueCell(raw.debtToCover, price_debt, price_collateral, price_debt),
         tx |-> TxHash(raw.transactionHash)]

-----------------------------------------------------------------------------
(* The scan pass: main() of the scanner                                     *)

NoRow == [block |-> 0, collateral_price_usd_at_block |-> Empty,
          debt_price_usd_at_block |-> Empty, collateral_value_usd |-> Empty,
          debt_value_usd |-> Empty, tx |-> NoTx]

NoStatus == [status |-> "absent", from_block |-> 0, to_block |-> 0,
             current_block |-> 0, events_found |-> 0]

IdleScanner ==
    [pc |-> "idle", passes |-> 0, result |-> "none",
     latest_block |-> 0, scan_from_block |-> 0, status_from_block |-> 0,
     csv_row_count |-> 0, existing_txs |-> {}, total_events_in_csv |-> 0,
     total_events_found |-> 0, current_batch_size |-> INITIAL_BATCH_SIZE,
     alchemy_limit_detected |-> FALSE, current_from |-> 0, current_to |-> 0,
     consecutive_errors |-> 0, scanned_ranges |-> << >>, batch_logs |-> << >>,
     row |-> NoRow, existing |-> {}, appended |-> FALSE,
     failed_requests |-> 0, limit_observed |-> FALSE, undecoded |-> {}]

\* write_status of main: the payload it puts into scan_status.json
StatusPayload(sc, status, current_block, events_found) ==
    [status |-> status, from_block |-> sc.status_from_block,
     to_block |-> sc.latest_block, current_block |-> current_block,
     events_found |-> events_found]

\* sync_scan_status_from_csv: the payload computed from the CSV
SyncPayload(file, status, current_block, to_block) ==
    [status |-> status, from_block |-> StatusFromBlock(file), to_block |-> to_block,
     current_block |-> current_block,
     events_found |-> IF NonEmptyFile(file) THEN Len(DictRows(file)) ELSE 0]

\* w3.eth.get_logs({fromBlock, toBlock, ...}): the logs of the range, in chain order
GetLogs(from, to) ==
    SelectSeq(chain, LAMBDA l : from <= l.blockNumber /\ l.blockNumber <= to)

\* gaps between the recorded ranges sorted by start (lines 1470-1482)
SortedRanges(ranges) ==
    LET n == Len(ranges)
        rank(i) == Cardinality({j \in 1..n :
                       ranges[j][1] < ranges[i][1] \/ (ranges[j][1] = ranges[i][1] /\ j < i)})
    IN  [k \in 1..n |-> ranges[CHOOSE i \in 1..n : rank(i) = k - 1]]

GapsFound(ranges) ==
    LET sorted == SortedRanges(ranges)
    IN  {<<sorted[i - 1][2] + 1, sorted[i][1] - 1>> :
            i \in {j \in 2..Len(sorted) : sorted[j][1] > sorted[j - 1][2] + 1}}

\* a resume that trusts the checkpoint file when there is one
ScanFromCheckpoint(d) ==
    IF checkpoint_file[d] # 0 THEN checkpoint_file[d] + 1
    ELSE ResumeBlock(ReconcileMasterCsvHeader(EnsureMasterCsvExists(csv[d])))

\* scan_from_block of a pass on data dir d: read from the master CSV alone
ScanFromBlock(d) == ResumeBlock(ReconcileMasterCsvHeader(EnsureMasterCsvExists(csv[d])))

\* a pass that scans whatever the resume block is
ScansAnyway(scan_from_block, latest_block) == FALSE

\* line 975: nothing to scan when the resume block is past the tip
UpToDate(scan_from_block, latest_block) == scan_from_block > latest_block

\* main() up to the resume decision (lines 870-1053)
StartPass(p) ==
    LET sc == scanner[p]
        d == fs[p]
        file == ReconcileMasterCsvHeader(EnsureMasterCsvExists(csv[d]))
        latest == head
        from == ScanFromBlock(d)
        st == [sc EXCEPT !.passes = sc.passes + 1,
                         !.latest_block = latest,
                         !.scan_from_block = from,
                         !.status_from_block = StatusFromBlock(file),
                         !.csv_row_count = ResumeRowCount(file),
                         !.existing_txs = {}, !.total_events_in_csv = 0,
                         !.total_events_found = 0,
                         !.current_batch_size = INITIAL_BATCH_SIZE,
                         !.alchemy_limit_detected = FALSE,
                         !.current_from = 0, !.current_to = 0,
                         !.consecutive_errors = 0, !.scanned_ranges = << >>,
                         !.batch_logs = << >>, !.row = NoRow, !.existing = {},
                         !.appended = FALSE, !.failed_requests = 0,
                         !.limit_observed = FALSE, !.undecoded = {}]
    IN  /\ sc.pc \in {"idle", "returned"}
        /\ sc.passes < MaxPasses
        /\ csv' = [csv EXCEPT ![d] = file]
        /\ IF UpToDate(from, latest)
           THEN /\ scanner' = [scanner EXCEPT ![p] =
                                  [st EXCEPT !.pc = "returned", !.result = "idle"]]
                /\ status_file' = [status_file EXCEPT ![d] =
                        [status |-> "idle", from_block |-> FROM_BLOCK,
                         to_block |-> latest, current_block |-> latest,
                         events_found |-> 0]]
                /\ checkpoint_file' = [checkpoint_file EXCEPT ![d] = latest]
           ELSE /\ scanner' = [scanner EXCEPT ![p] =
                                  [st EXCEPT !.pc = "load", !.result = "running"]]
                /\ status_file' = [status_file EXCEPT ![d] =
                        StatusPayload(st, "running", from, 0)]
                /\ UNCHANGED checkpoint_file
        /\ UNCHANGED <<chain, head, lock, fs, px>>

\* the dedupe set and the loop variables (lines 1058-1103)
LoadExisting(p) ==
    LET sc == scanner[p]
        file == csv[fs[p]]
        row_count_from_read == IF NonEmptyFile(file) THEN Len(DictRows(file)) ELSE 0
        total == IF row_count_from_read > 0 THEN row_count_from_read ELSE sc.csv_row_count
    IN  /\ sc.pc = "load"
        /\ scanner' = [scanner EXCEPT ![p] =
               [sc EXCEPT !.pc = "loop",
                          !.existing_txs = LoadExistingTxs(file),
                          !.total_events_in_csv = total,
                          !.total_events_found = total,
                          !.current_batch_size = INITIAL_BATCH_SIZE,
                          !.alchemy_limit_detected = FALSE,
                          !.current_from = sc.scan_from_block,
                          !.consecutive_errors = 0,
                          !.scanned_ranges = << >>]]
        /\ UNCHANGED <<chain, head, csv, lock, status_file, checkpoint_file, fs, px>>

\* One iteration of the forward loop whose get_logs succeeds (lines 1105-1142)
\* a batch size that doubles without a ceiling
GrowUncapped(current_batch_size, alchemy_limit_detected) ==
    IF ~alchemy_limit_detected THEN current_batch_size * 2 ELSE current_batch_size

\* a batch size that keeps doubling after a provider-limit signal
GrowWhenLimited(current_batch_size, alchemy_limit_detected) ==
    Min2(current_batch_size * 2, MAX_BATCH_SIZE)

\* the batch size after a successful get_logs (lines 1133-1138)
BatchAfterSuccess(current_batch_size, alchemy_limit_detected) ==
    IF current_batch_size < MAX_BATCH_SIZE /\ ~alchemy_limit_detected
    THEN Min2(current_batch_size * 2, MAX_BATCH_SIZE)
    ELSE current_batch_size

\* the loop variables after a successful get_logs (lines 1106-1138)
Fetched(sc) ==
    LET current_to == Min2(sc.current_from + sc.current_batch_size - 1, sc.latest_block)
        grown == BatchAfterSuccess(sc.current_batch_size, sc.alchemy_limit_detected)
    IN  [sc EXCEPT !.pc = "logs",
                   !.current_to = current_to,
                   !.batch_logs = GetLogs(sc.current_from, current_to),
                   !.scanned_ranges = Append(sc.scanned_ranges,
                                             <<sc.current_from, current_to>>),
                   !.consecutive_errors = 0,
                   !.current_batch_size = grown]

GetLogsOk(p) ==
    LET sc == scanner[p]
        current_to == Min2(sc.current_from + sc.current_batch_size - 1, sc.latest_block)
    IN  /\ sc.pc = "loop"
        /\ sc.current_from <= sc.latest_block
        /\ scanner' = [scanner EXCEPT ![p] = Fetched(sc)]
        /\ status_file' = [status_file EXCEPT ![fs[p]] =
               StatusPayload(sc, "running", current_to, sc.total_events_found)]
        /\ UNCHANGED <<chain, head, csv, lock, checkpoint_file, fs, px>>

\* a cursor that moves past a range whose request failed
CursorSkipsFailedRange(current_from, current_to) == current_to + 1

\* The cursor after a failed request: the except branch leaves with continue,
\* before line 1467 is reached
CursorAfterFailure(current_from, current_to) == current_from

\* One iteration whose get_logs raises (lines 1410-1465).  limit: the message
\* carries a provider-limit signal; rotated: some get_web3_with_rotation
\* attempt of the handler succeeded.  failed_requests counts the failed
\* requests of the pass up to MaxFailures, limit_observed records that one of
\* them carried a provider-limit signal (histories of the environment, not
\* variables of the code).
FailedScanner(sc, limit, rotated) ==
    LET current_to == Min2(sc.current_from + sc.current_batch_size - 1, sc.latest_block)
        errs == sc.consecutive_errors + 1
        base == [sc EXCEPT !.current_to = current_to,
                           !.current_from = CursorAfterFailure(sc.current_from, current_to),
                           !.failed_requests = Min2(sc.failed_requests + 1, MaxFailures),
                           !.limit_observed = sc.limit_observed \/ limit]
    IN  IF errs >= MAX_CONSECUTIVE_ERRORS
        THEN [base EXCEPT !.consecutive_errors = 0]
        ELSE IF limit /\ sc.current_batch_size > MIN_BATCH_SIZE
        THEN [base EXCEPT !.consecutive_errors = errs,
                          !.current_batch_size =
                              Max2(sc.current_batch_size \div 2, MIN_BATCH_SIZE),
                          !.alchemy_limit_detected = TRUE]
        ELSE IF limit /\ rotated
        THEN [base EXCEPT !.consecutive_errors = 0,
                          !.current_batch_size = INITIAL_BATCH_SIZE,
                          !.alchemy_limit_detected = FALSE]
        ELSE [base EXCEPT !.consecutive_errors = errs]

\* the status the iteration leaves: 'running' written before the request
\* (line 1108), 'waiting' when every rotation attempt of the third
\* consecutive failure failed (line 1430)
FailedStatus(sc, rotated) ==
    LET current_to == Min2(sc.current_from + sc.current_batch_size - 1, sc.latest_block)
    IN  IF sc.consecutive_errors + 1 >= MAX_CONSECUTIVE_ERRORS /\ ~rotated
        THEN StatusPayload(sc, "waiting", sc.current_from, sc.total_events_found)
        ELSE StatusPayload(sc, "running", current_to, sc.total_events_found)

GetLogsFail(p, limit, rotated) ==
    LET sc == scanner[p]
    IN  /\ sc.pc = "loop"
        /\ sc.current_from <= sc.latest_block
        /\ scanner' = [scanner EXCEPT ![p] = FailedScanner(sc, limit, rotated)]
        /\ status_file' = [status_file EXCEPT ![fs[p]] = FailedStatus(sc, rotated)]
        /\ UNCHANGED <<chain, head, csv, lock, checkpoint_file, fs, px>>

\* The next log of the batch: the duplicate check and the row (lines 1144-1367)
ProcessLog(p) ==
    LET sc == scanner[p]
        raw == Head(sc.batch_logs)
        tx_hash_lower == Lower(TxHash(raw.transactionHash))
    IN  /\ sc.pc = "logs"
        /\ sc.batch_logs # << >>
        /\ IF tx_hash_lower \in sc.existing_txs
           THEN scanner' = [scanner EXCEPT ![p] =
                              [sc EXCEPT !.batch_logs = Tail(sc.batch_logs)]]
           ELSE scanner' = [scanner EXCEPT ![p] =
                              [sc EXCEPT !.pc = "append", !.row = EventRow(raw)]]
        /\ UNCHANGED <<chain, head, csv, lock, status_file, checkpoint_file, fs, px>>

\* a failure that gives up the rest of the batch
DropBatch(batch_logs) == << >>

\* the continue of line 1206: the for loop goes on with the next log
AfterDecodeFailure(batch_logs) == Tail(batch_logs)

\* A log that fails to decode is skipped (lines 1204-1206); undecoded keeps
\* the transactions of the logs that failed in this pass
DecodeFail(p) ==
    LET sc == scanner[p]
    IN  /\ sc.pc = "logs"
        /\ sc.batch_logs # << >>
        /\ scanner' = [scanner EXCEPT ![p] =
               [sc EXCEPT !.batch_logs = AfterDecodeFailure(sc.batch_logs),
                          !.undecoded = @ \cup {Head(sc.batch_logs).transactionHash}]]
        /\ UNCHANGED <<chain, head, csv, lock, status_file, checkpoint_file, fs, px>>

\* append_row_if_tx_missing, lines 78-85: the file is opened, the exclusive
\* lock taken and the existing tx values read
AppendLock(p) ==
    LET sc == scanner[p]
        d == fs[p]
    IN  /\ sc.pc = "append"
        /\ LockFree(d)
        /\ lock' = [lock EXCEPT ![d] = p]
        /\ csv' = [csv EXCEPT ![d] = Touch(csv[d])]
        /\ scanner' = [scanner EXCEPT ![p] =
               [sc EXCEPT !.pc = "locked", !.existing = ReadExisting(Touch(csv[d]))]]
        /\ UNCHANGED <<chain, head, status_file, checkpoint_file, fs, px>>

\* a dedupe set that is loaded once and never added to
DedupeForgets(existing_txs, tx_hash_lower, appended) == existing_txs

\* The dedupe set after an append that returned `appended` (line 1387)
DedupeAfterAppend(existing_txs, tx_hash_lower, appended) ==
    IF appended THEN existing_txs \cup {tx_hash_lower} ELSE existing_txs

\* append_row_if_tx_missing, lines 87-115, and what main does with its result
\* (lines 1376-1403)
AppendWrite(p) ==
    LET sc == scanner[p]
        d == fs[p]
        res == AppendDecide(csv[d], sc.existing, sc.row)
        found == IF res.ret THEN sc.total_events_found + 1 ELSE sc.total_events_found
    IN  /\ sc.pc = "locked"
        /\ csv' = [csv EXCEPT ![d] = res.file]
        /\ lock' = [lock EXCEPT ![d] = 0]
        /\ scanner' = [scanner EXCEPT ![p] =
               [sc EXCEPT !.pc = "logs",
                          !.appended = res.ret,
                          !.existing_txs =
                              DedupeAfterAppend(sc.existing_txs, Lower(sc.row.tx), res.ret),
                          !.total_events_found = found,
                          !.batch_logs = Tail(sc.batch_logs)]]
        /\ status_file' = [status_file EXCEPT ![d] =
               IF res.ret THEN StatusPayload(sc, "running", sc.row.block, found)
               ELSE status_file[d]]
        /\ UNCHANGED <<chain, head, checkpoint_file, fs, px>>

\* append_row_if_tx_missing raises (lock or disk error): appended = False
\* (lines 1372-1374), the lock is released by the finally clause
AppendRaises(p) ==
    LET sc == scanner[p]
        d == fs[p]
    IN  /\ sc.pc \in {"append", "locked"}
        /\ lock' = [lock EXCEPT ![d] = IF lock[d] = p THEN 0 ELSE lock[d]]
        /\ scanner' = [scanner EXCEPT ![p] =
               [sc EXCEPT !.pc = "logs",
                          !.appended = FALSE,
                          !.existing_txs =
                              DedupeAfterAppend(sc.existing_txs, Lower(sc.row.tx), FALSE),
                          !.batch_logs = Tail(sc.batch_logs)]]
        /\ UNCHANGED <<chain, head, csv, status_file, checkpoint_file, fs, px>>

\* a cursor that leaves one block out after every batch
CursorLeavesGap(current_from, current_to) == current_to + 2

\* The cursor after a processed batch (line 1467)
CursorAfterBatch(current_from, current_to) == current_to + 1

NextBatch(p) ==
    LET sc == scanner[p]
    IN  /\ sc.pc = "logs"
        /\ sc.batch_logs = << >>
        /\ scanner' = [scanner EXCEPT ![p] =
               [sc EXCEPT !.pc = "loop",
                          !.current_from = CursorAfterBatch(sc.current_from, sc.current_to)]]
        /\ UNCHANGED <<chain, head, csv, lock, status_file, checkpoint_file, fs, px>>

\* The loop has ended: batch verification, the completed status and the
\* best-effort checkpoint (lines 1469-1692)
\* The recorded ranges are contiguous in every reachable state, so the gap
\* list is empty and the gap-fill branch (lines 1484-1671) is never entered.
Finish(p) ==
    LET sc == scanner[p]
        d == fs[p]
    IN  /\ sc.pc = "loop"
        /\ sc.current_from > sc.latest_block
        /\ GapsFound(sc.scanned_ranges) = {}
        /\ scanner' = [scanner EXCEPT ![p] =
               [sc EXCEPT !.pc = "returned", !.result = "completed"]]
        /\ status_file' = [status_file EXCEPT ![d] =
               StatusPayload(sc, "completed", sc.latest_block, sc.total_events_found)]
        /\ checkpoint_file' = [checkpoint_file EXCEPT ![d] = sc.latest_block]
        /\ UNCHANGED <<chain, head, csv, lock, fs, px>>

\* The process is killed inside a pass; the operating system drops its lock
Kill(p) ==
    LET sc == scanner[p]
        d == fs[p]
    IN  /\ sc.pc \in {"load", "loop", "logs", "append", "locked"}
        /\ scanner' = [scanner EXCEPT ![p] =
               [IdleScanner EXCEPT !.passes = sc.passes, !.result = "killed"]]
        /\ lock' = [lock EXCEPT ![d] = IF lock[d] = p THEN 0 ELSE lock[d]]
        /\ UNCHANGED <<chain, head, csv, status_file, checkpoint_file, fs, px>>

\* The chain grows: w3.eth.block_number moves to the next tip
Mine ==
    /\ \E i \in 1..(Len(HeadOffsets) - 1) :
          /\ head = FROM_BLOCK + HeadOffsets[i]
          /\ head' = FROM_BLOCK + HeadOffsets[i + 1]
    /\ UNCHANGED <<chain, csv, lock, status_file, checkpoint_file, fs, scanner, px>>

-----------------------------------------------------------------------------
(* Initial states *)

CanonicalFile == [exists |-> TRUE, header |-> CSV_FIELD_ORDER, rows |-> << >>]

\* WETH with both the oracle and the USD feed answering
PlainQuote ==
    [asset |-> AssetOf(FALSE, FALSE, FALSE, FALSE, FALSE),
     oracle |-> "pos", direct |-> "pos", oracle_inner |-> "none",
     lsd_inner |-> "none", composition |-> "none", capo_params |-> FALSE,
     raw_lsd |-> "none"]

\* WETH with neither the oracle nor the USD feed answering: the row gets empty
\* price cells
UnpricedQuote == [PlainQuote EXCEPT !.oracle = "none", !.direct = "none"]

EventLog(off, tx, collateral, debt) ==
    [blockNumber |-> FROM_BLOCK + off, transactionHash |-> tx,
     collateral |-> collateral, debt |-> debt,
     collateralAmount |-> 2, debtToCover |-> 5]

\* a log with both prices resolved
PlainLog(off, tx) == EventLog(off, tx, PlainQuote, PlainQuote)

\* chains of NumLogs logs in block order, one transaction each
Chains ==
    { [i \in 1..NumLogs |-> PlainLog(f[i], i)] :
        f \in {g \in [1..NumLogs -> LogOffsets] :
                  \A i \in 1..(NumLogs - 1) : g[i] <= g[i + 1]} }

NoPx == [pc |-> "idle"]

InitWith(chains, files, dirs) ==
    /\ chain \in chains
    /\ head = FROM_BLOCK + HeadOffsets[1]
    /\ \E f \in files : csv = [d \in DataDirs |-> f]
    /\ lock = [d \in DataDirs |-> 0]
    /\ status_file = [d \in DataDirs |-> NoStatus]
    /\ checkpoint_file = [d \in DataDirs |-> 0]
    /\ fs = dirs
    /\ scanner = [p \in Procs |-> IdleScanner]
    /\ px = NoPx

Init == InitWith(Chains, {CanonicalFile}, [p \in Procs |-> 1])

\* the steps of a pass that involve no fault
Pass(p) ==
    \/ StartPass(p)
    \/ LoadExisting(p)
    \/ GetLogsOk(p)
    \/ ProcessLog(p)
    \/ AppendLock(p)
    \/ AppendWrite(p)
    \/ NextBatch(p)
    \/ Finish(p)

RpcFault(p) == \E limit \in BOOLEAN, rotated \in BOOLEAN : GetLogsFail(p, limit, rotated)

\* one scanner, every fault
Next ==
    \/ Pass(1)
    \/ RpcFault(1)
    \/ DecodeFail(1)
    \/ AppendRaises(1)
    \/ Kill(1)
    \/ Mine

Spec == Init /\ [][Next]_vars

\* one scanner and every fault that decides which rows the CSV holds
NextFaults ==
    \/ Pass(1)
    \/ DecodeFail(1)
    \/ AppendRaises(1)
    \/ Kill(1)
    \/ Mine

SpecFaults == Init /\ [][NextFaults]_vars

\* one scanner whose only faults are get_logs failures
NextRpc ==
    \/ Pass(1)
    \/ RpcFault(1)
    \/ Mine

SpecRpc == Init /\ [][NextRpc]_vars

\* chains in which at least two logs belong to one transaction (and so to one
\* block); the first log of a transaction has both prices resolved, a later
\* one has no collateral price, so that a row tells which log it was built from
SharedTxChains ==
    LET offsets == {g \in [1..NumLogs -> LogOffsets] :
                       \A i \in 1..(NumLogs - 1) : g[i] <= g[i + 1]}
        txs == {u \in [1..NumLogs -> 1..NumLogs] :
                   /\ u[1] = 1
                   /\ \A i \in 1..(NumLogs - 1) : u[i + 1] \in {u[i], u[i] + 1}
                   /\ \E i \in 1..(NumLogs - 1) : u[i + 1] = u[i]}
        same_block(f, t) == \A i \in 1..(NumLogs - 1) : t[i + 1] = t[i] => f[i + 1] = f[i]
    IN  { [i \in 1..NumLogs |->
              EventLog(ft[1][i], ft[2][i],
                       IF i = 1 \/ ft[2][i - 1] # ft[2][i] THEN PlainQuote
                       ELSE UnpricedQuote,
                       PlainQuote)] :
            ft \in {x \in offsets \X txs : same_block(x[1], x[2])} }

InitSharedTx == InitWith(SharedTxChains, {CanonicalFile}, [p \in Procs |-> 1])

\* one scanner on such a chain, get_logs failures as the only faults
SpecSharedTx == InitSharedTx /\ [][NextRpc]_vars

\* one scanner that may be killed at any point of a pass
NextCrash ==
    \/ Pass(1)
    \/ Kill(1)
    \/ Mine

SpecCrash == Init /\ [][NextCrash]_vars

\* one scanner whose only fault is a raising CSV append
NextIo ==
    \/ Pass(1)
    \/ AppendRaises(1)
    \/ Mine

SpecIo == Init /\ [][NextIo]_vars

\* two scanner processes on the same data directory
NextConc ==
    \/ Pass(1)
    \/ Pass(2)

SpecConc == Init /\ [][NextConc]_vars

\* two runs on separate data directories holding the same CSV (empty, or with
\* the row of the first event), over the same chain; the second directory
\* holds any status file and checkpoint file
StatusChoices ==
    { NoStatus,
      [status |-> "completed", from_block |-> FROM_BLOCK,
       to_block |-> FROM_BLOCK + HeadOffsets[2],
       current_block |-> FROM_BLOCK + HeadOffsets[2], events_found |-> NumLogs] }

CheckpointChoices == {0, FROM_BLOCK + HeadOffsets[1], FROM_BLOCK + HeadOffsets[2]}

InitTwin ==
    /\ chain \in Chains
    /\ head = FROM_BLOCK + HeadOffsets[1]
    /\ \E f \in {CanonicalFile, [CanonicalFile EXCEPT !.rows = <<EventRow(chain[1])>>]} :
          csv = [d \in DataDirs |-> f]
    /\ lock = [d \in DataDirs |-> 0]
    /\ \E st \in StatusChoices : status_file = [d \in DataDirs |-> IF d = 1 THEN NoStatus ELSE st]
    /\ \E cp \in CheckpointChoices :
          checkpoint_file = [d \in DataDirs |-> IF d = 1 THEN 0 ELSE cp]
    /\ fs = [p \in Procs |-> p]
    /\ scanner = [p \in Procs |-> IdleScanner]
    /\ px = NoPx

SpecTwin == InitTwin /\ [][NextConc]_vars

\* one scanner over a chain of one event, for every pair of quotes of its
\* collateral and debt asset in which no read of get_price_for_block answers
EnrichQuotes ==
    {q \in Quotes : /\ q.oracle # "error"
                    /\ q.direct = "none"
                    /\ q.oracle_inner = "none"
                    /\ q.lsd_inner = "none"
                    /\ q.composition = "none"}

InitEnrich ==
    InitWith({ <<EventLog(100, 1, c, d)>> : c \in EnrichQuotes, d \in EnrichQuotes },
             {CanonicalFile}, [p \in Procs |-> 1])

NextEnrich == Pass(1)

SpecEnrich == InitEnrich /\ [][NextEnrich]_vars

\* direct calls of append_row_if_tx_missing on a file with the canonical
\* header: any rows already in it, any row with a non-empty tx to append
MaxCalls == 2
MaxPoolCalls == 3
MaxRecorded == 4
MaxWrites == 3

CallRows ==
    { [NoRow EXCEPT !.block = FROM_BLOCK + 100, !.tx = [id |-> i, upper |-> u]] :
        i \in 1..3, u \in BOOLEAN }

CallFiles ==
    { [CanonicalFile EXCEPT !.rows = rows] :
        rows \in {<< >>} \cup {<<r>> : r \in CallRows}
                 \cup {<<r1, r2>> : r1 \in CallRows, r2 \in CallRows} }

\* one call: the function runs from the lock to the unlock
AppendCall(p, row) ==
    LET sc == scanner[p]
        d == fs[p]
        res == AppendRowIfTxMissing(csv[d], row)
    IN  /\ sc.pc = "idle"
        /\ sc.passes < MaxCalls
        /\ LockFree(d)
        /\ csv' = [csv EXCEPT ![d] = res.file]
        /\ scanner' = [scanner EXCEPT ![p] =
               [sc EXCEPT !.passes = sc.passes + 1, !.row = row, !.appended = res.ret]]
        /\ UNCHANGED <<chain, head, lock, status_file, checkpoint_file, fs, px>>

InitAppend == InitWith({<< >>}, CallFiles, [p \in Procs |-> 1])

NextAppend == \E row \in CallRows : AppendCall(1, row)

SpecAppend == InitAppend /\ [][NextAppend]_vars

\* a path with no file and a path with a zero-byte file
BareFiles == {NoFile, [NoFile EXCEPT !.exists = TRUE]}

\* the same calls, on a path that may also hold no file or a zero-byte one
InitAppendBare == InitWith({<< >>}, CallFiles \cup BareFiles, [p \in Procs |-> 1])

SpecAppendBare == InitAppendBare /\ [][NextAppend]_vars

\* one call of get_aave_asset_price for every quote
Resolve ==
    /\ px.pc = "call"
    /\ px' = [pc |-> "done", q |-> px.q, res |-> GetAaveAssetPrice(px.q)]
    /\ UNCHANGED <<chain, head, csv, lock, status_file, checkpoint_file, fs, scanner>>

InitPrice ==
    /\ chain = << >>
    /\ head = FROM_BLOCK
    /\ csv = [d \in DataDirs |-> CanonicalFile]
    /\ lock = [d \in DataDirs |-> 0]
    /\ status_file = [d \in DataDirs |-> NoStatus]
    /\ checkpoint_file = [d \in DataDirs |-> 0]
    /\ fs = [p \in Procs |-> 1]
    /\ scanner = [p \in Procs |-> IdleScanner]
    /\ \E q \in Quotes : px = [pc |-> "call", q |-> q]

NextPrice == Resolve

SpecPrice == InitPrice /\ [][NextPrice]_vars

-----------------------------------------------------------------------------
(* CAPO: cap_price_from_ratio and the cap applied by                        *)
(* ChainlinkPriceFetcher._get_lsd_price_for_block.  Prices are counted in   *)
(* quanta of 0.005 USD (the source quantizes to 0.00000001 USD), time in    *)
(* quarter years (the source counts seconds); Decimal arithmetic is exact   *)
(* rational arithmetic, a value being [num, den].                           *)

Rat(n, d) == [num |-> n, den |-> d]

RatLe(a, b) == a.num * b.den <= b.num * a.den

RECURSIVE Pow10(_)
Pow10(n) == IF n = 0 THEN 1 ELSE 10 * Pow10(n - 1)

\* Decimal.quantize: to the nearest quantum, a tie to the even one
Quantize(r) ==
    LET q == r.num \div r.den
        rem == r.num % r.den
    IN  IF 2 * rem > r.den THEN q + 1
        ELSE IF 2 * rem = r.den THEN q + (q % 2)
        ELSE q

\* a cap that also runs backwards, before the snapshot
MaxRatioUnclamped(snapshot_ratio, snapshot_ts, max_yearly_ratio_bps, event_ts) ==
    Rat(snapshot_ratio * (10000 * 4)
            + snapshot_ratio * max_yearly_ratio_bps * (event_ts - snapshot_ts),
        10000 * 4)

\* max_ratio = snapshot + snapshot * max_yearly * elapsed /
\*             (PERCENTAGE_FACTOR * SECONDS_PER_YEAR); SCALING_FACTOR cancels.
\* PERCENTAGE_FACTOR is 10000, a year is 4 quarters.
MaxRatio(snapshot_ratio, snapshot_ts, max_yearly_ratio_bps, event_ts) ==
    LET elapsed == Max2(0, event_ts - snapshot_ts)
    IN  Rat(snapshot_ratio * (10000 * 4) + snapshot_ratio * max_yearly_ratio_bps * elapsed,
            10000 * 4)

\* cap_price_from_ratio (lines 253-277)
CapPriceFromRatio(base_price, current_ratio, snapshot_ratio, snapshot_ts, max_yearly_ratio_bps, ratio_decimals, event_ts) ==
    IF snapshot_ratio = 0 THEN 0
    ELSE LET max_ratio == MaxRatio(snapshot_ratio, snapshot_ts, max_yearly_ratio_bps, event_ts)
             effective_ratio == IF RatLe(current_ratio, max_ratio) THEN current_ratio
                                ELSE max_ratio
         IN  Quantize(Rat(base_price * effective_ratio.num,
                          effective_ratio.den * Pow10(ratio_decimals)))

\* which of the two prices is returned with used_capo = True (lines 916-926):
\* the capped one only when the raw one exceeds it by more than epsilon,
\* 0.01 USD = 2 quanta
CapoChoice(raw_price, capo_price) ==
    IF raw_price - capo_price > 2 THEN capo_price ELSE raw_price

\* _get_lsd_price_for_block from the raw price on (lines 870-950), for
\* parameters of type 'ratio'.  c is the call: the prices, the parameters read
\* at the block (has_params: there are any), the timestamp of the event block
\* and whether get_block answered; when it did not, event_ts is None and
\* cap_price_from_ratio takes the current time.
LsdPriceForBlock(c) ==
    IF ~c.has_params THEN [price |-> c.raw_price, used_capo |-> FALSE]
    ELSE LET event_ts == IF c.block_ok THEN c.block_ts ELSE c.now
             current_ratio == Rat(c.raw_price * Pow10(c.ratio_decimals), c.underlying_price)
             capo_price == CapPriceFromRatio(c.underlying_price, current_ratio,
                                             c.snapshot_ratio, c.snapshot_ts,
                                             c.max_yearly_ratio_bps, c.ratio_decimals,
                                             event_ts)
         IN  [price |-> CapoChoice(c.raw_price, capo_price), used_capo |-> TRUE]

\* the calls: an LSD at 1.0 .. 1.4 of an underlying of 0.10 USD, a snapshot
\* ratio of 1.0 (or none), growth of 0 or 10 % a year, an event up to a year
\* after the snapshot and a current time a year after that
CapoCalls ==
    [underlying_price : {20}, raw_price : 18..28, has_params : BOOLEAN,
     snapshot_ratio : {0, 10}, snapshot_ts : {4}, max_yearly_ratio_bps : {0, 1000},
     ratio_decimals : {1}, block_ts : {4, 6, 8}, block_ok : BOOLEAN, now : {12}]

LsdPrice ==
    /\ px.pc = "lsd_call"
    /\ px' = [pc |-> "lsd_done", c |-> px.c, res |-> LsdPriceForBlock(px.c)]
    /\ UNCHANGED <<chain, head, csv, lock, status_file, checkpoint_file, fs, scanner>>

InitCapo ==
    /\ chain = << >>
    /\ head = FROM_BLOCK
    /\ csv = [d \in DataDirs |-> CanonicalFile]
    /\ lock = [d \in DataDirs |-> 0]
    /\ status_file = [d \in DataDirs |-> NoStatus]
    /\ checkpoint_file = [d \in DataDirs |-> 0]
    /\ fs = [p \in Procs |-> 1]
    /\ scanner = [p \in Procs |-> IdleScanner]
    /\ \E c \in CapoCalls : px = [pc |-> "lsd_call", c |-> c]

NextCapo == LsdPrice

SpecCapo == InitCapo /\ [][NextCapo]_vars

\* cap_price_from_ratio itself, called for one event time and for a later one
\* with the other arguments the same: prices of 0.10 and 0.165 USD, a current
\* ratio of 0.8 .. 1.4, a snapshot ratio of 1.0 (or 0) taken at time 4, growth
\* of 0, 10 or 25 % a year, events from half a year before the snapshot to a
\* year after it
CapArgs ==
    [base_price : {20, 33}, current_ratio : 8..14, snapshot_ratio : {0, 10},
     snapshot_ts : {4}, max_yearly_ratio_bps : {0, 1000, 2500}, ratio_decimals : {1},
     event_ts : 2..8, later_ts : 2..8]

CapPriceAt(a, event_ts) ==
    CapPriceFromRatio(a.base_price, Rat(a.current_ratio, 1), a.snapshot_ratio,
                      a.snapshot_ts, a.max_yearly_ratio_bps, a.ratio_decimals, event_ts)

CapCall ==
    /\ px.pc = "cap_call"
    /\ px' = [pc |-> "cap_done", a |-> px.a, res |-> CapPriceAt(px.a, px.a.event_ts),
              res_later |-> CapPriceAt(px.a, px.a.later_ts)]
    /\ UNCHANGED <<chain, head, csv, lock, status_file, checkpoint_file, fs, scanner>>

InitCap ==
    /\ chain = << >>
    /\ head = FROM_BLOCK
    /\ csv = [d \in DataDirs |-> CanonicalFile]
    /\ lock = [d \in DataDirs |-> 0]
    /\ status_file = [d \in DataDirs |-> NoStatus]
    /\ checkpoint_file = [d \in DataDirs |-> 0]
    /\ fs = [p \in Procs |-> 1]
    /\ scanner = [p \in Procs |-> IdleScanner]
    /\ \E a \in CapArgs : a.event_ts <= a.later_ts /\ px = [pc |-> "cap_call", a |-> a]

NextCap == CapCall

SpecCap == InitCap /\ [][NextCap]_vars

-----------------------------------------------------------------------------
(* Two resolutions of one (symbol, asset, block) against one on-chain state, *)
(* each with its own transient RPC failures.                                 *)

\* what the chain holds at the block: a quote none of whose reads is an error
ChainStates == { q \in Quotes : q.oracle # "error" /\ q.direct # "error" }

\* the reads that fail during one resolution: the oracle read of
\* get_aave_asset_price, the latestRoundData read of the USD feed, the reads
\* of the LSD contract (exchange rate, CAPO parameters)
Faults == [oracle : BOOLEAN, direct : BOOLEAN, lsd : BOOLEAN]

\* what one resolution reads: a failed read raises in web3 ("error"), or is
\* caught inside the fetcher, which then answers None
Observe(state, f) ==
    [state EXCEPT !.oracle = IF f.oracle THEN "error" ELSE @,
                  !.direct = IF f.direct THEN "error" ELSE @,
                  !.lsd_inner = IF f.lsd THEN "none" ELSE @,
                  !.raw_lsd = IF f.lsd THEN "none" ELSE @,
                  !.capo_params = IF f.lsd THEN FALSE ELSE @]

ResolveFirst ==
    /\ px.pc = "twice_call"
    /\ \E f \in Faults :
         px' = [pc |-> "twice_one", state |-> px.state,
                first |-> GetAaveAssetPrice(Observe(px.state, f))]
    /\ UNCHANGED <<chain, head, csv, lock, status_file, checkpoint_file, fs, scanner>>

ResolveSecond ==
    /\ px.pc = "twice_one"
    /\ \E f \in Faults :
         px' = [pc |-> "twice_done", state |-> px.state, first |-> px.first,
                second |-> GetAaveAssetPrice(Observe(px.state, f))]
    /\ UNCHANGED <<chain, head, csv, lock, status_file, checkpoint_file, fs, scanner>>

InitTwice ==
    /\ chain = << >>
    /\ head = FROM_BLOCK
    /\ csv = [d \in DataDirs |-> CanonicalFile]
    /\ lock = [d \in DataDirs |-> 0]
    /\ status_file = [d \in DataDirs |-> NoStatus]
    /\ checkpoint_file = [d \in DataDirs |-> 0]
    /\ fs = [p \in Procs |-> 1]
    /\ scanner = [p \in Procs |-> IdleScanner]
    /\ \E state \in ChainStates : px = [pc |-> "twice_call", state |-> state]

NextTwice == ResolveFirst \/ ResolveSecond

SpecTwice == InitTwice /\ [][NextTwice]_vars

-----------------------------------------------------------------------------
(* A pass over a long range: the batch size reaches its ceiling.            *)

\* one log, the head far enough for five growing batches
InitBatch ==
    /\ chain = << PlainLog(100, 1) >>
    /\ head = FROM_BLOCK + 16000
    /\ csv = [d \in DataDirs |-> CanonicalFile]
    /\ lock = [d \in DataDirs |-> 0]
    /\ status_file = [d \in DataDirs |-> NoStatus]
    /\ checkpoint_file = [d \in DataDirs |-> 0]
    /\ fs = [p \in Procs |-> 1]
    /\ scanner = [p \in Procs |-> IdleScanner]
    /\ px = NoPx

\* the provider fails at most MaxFailures requests of a pass
RpcFaultWithin(p) == scanner[p].failed_requests < MaxFailures /\ RpcFault(p)

NextBatchSize ==
    \/ Pass(1)
    \/ RpcFaultWithin(1)

SpecBatch == InitBatch /\ [][NextBatchSize]_vars

-----------------------------------------------------------------------------
(* ProviderManager (web3_utils.py) and the rotation of the batch loop.      *)
(* px holds the manager and the client of the scanner:                      *)
(*   health       what each endpoint answers: "healthy" (probe and          *)
(*                get_logs), "probe_only" (is_connected and chain_id only), *)
(*                "wrong_chain" (another chain id), "no_chain" (chain_id    *)
(*                raises), "down" (nothing)                                 *)
(*   w3           the endpoint of the client main holds                     *)
(*   sticky       ProviderManager._sticky, 0 for None                       *)
(*   sticky_chain the chain id the cached client reported when connected    *)
(*   last_index   ProviderManager._last_index, 0 before the first success   *)
(*   error_count  ProviderState.error_count of each endpoint                *)

Endpoints == 1..NumEndpoints

\* w3.is_connected()
Connects(health, e) == health[e] # "down"

\* w3.eth.chain_id of the endpoint, 0 when it cannot be read (line 203)
ChainId(health, e) ==
    CASE health[e] \in {"healthy", "probe_only"} -> EXPECTED_CHAIN_ID
      [] health[e] = "wrong_chain" -> 10
      [] OTHER -> 0

\* a probe that does not look at the chain id
ProbesWithoutChainId(health, e) == health[e] # "down"

\* an endpoint passes when it is connected and serves the expected chain
\* (lines 199-208)
Probes(health, e) == Connects(health, e) /\ ChainId(health, e) = EXPECTED_CHAIN_ID

\* _provider_order: round robin from the endpoint after _last_index, the
\* endpoints with fewer errors first
RotatedIndex(pm, e) == (e - 1 - (pm.last_index % NumEndpoints)) % NumEndpoints

\* an order by position in the rotation alone
RotationOnly(pm, a, b) == RotatedIndex(pm, a) < RotatedIndex(pm, b)

\* the sort key (error_count, rotated.index(idx)) of line 167
TriedBefore(pm, a, b) ==
    \/ pm.error_count[a] < pm.error_count[b]
    \/ /\ pm.error_count[a] = pm.error_count[b]
       /\ RotatedIndex(pm, a) < RotatedIndex(pm, b)

ProviderOrder(pm) ==
    [k \in 1..NumEndpoints |->
        CHOOSE e \in Endpoints :
            Cardinality({y \in Endpoints : TriedBefore(pm, y, e)}) = k - 1]

\* a mark_failure that counts twice
MarkFailureTwice(error_count, failed) ==
    [e \in Endpoints |-> IF e \in failed THEN Min2(error_count[e] + 2, MaxErrorCount)
                         ELSE error_count[e]]

\* ProviderState.mark_failure
MarkFailure(error_count, failed) ==
    [e \in Endpoints |-> IF e \in failed THEN Min2(error_count[e] + 1, MaxErrorCount)
                         ELSE error_count[e]]

\* line 179: the cached client is returned when a new one is not forced and
\* the cached one answers is_connected
ReuseSticky(pm, force_new) ==
    ~force_new /\ pm.sticky # 0 /\ Connects(pm.health, pm.sticky)

\* ProviderManager.get_web3: the manager after the call, the endpoint of the
\* client returned (0 for None) and the endpoints tried, in order
GetWeb3(pm, force_new, sticky) ==
    IF sticky /\ ReuseSticky(pm, force_new)
    THEN [pm |-> pm, client |-> pm.sticky, tried |-> << >>]
    ELSE LET order == ProviderOrder(pm)
             hits == {k \in 1..NumEndpoints : Probes(pm.health, order[k])}
         IN  IF hits = {}
             THEN [pm |-> [pm EXCEPT !.error_count = MarkFailure(@, Endpoints)],
                   client |-> 0, tried |-> order]
             ELSE LET k == SetMin(hits)
                      e == order[k]
                      failed == {order[i] : i \in 1..(k - 1)}
                  IN  [pm |-> [pm EXCEPT !.error_count = MarkFailure(@, failed),
                                         !.last_index = e,
                                         !.sticky = IF sticky THEN e ELSE @,
                                         !.sticky_chain =
                                             IF sticky THEN ChainId(pm.health, e) ELSE @],
                       client |-> e, tried |-> SubSeq(order, 1, k)]

\* get_web3_with_rotation (scanner, lines 276-293): force_new=False,
\* sticky=True
GetWeb3WithRotation(pm) == GetWeb3(pm, FALSE, TRUE)

\* the rotation loops of the except handler: up to attempts calls of
\* get_web3_with_rotation, the first that returns a client ends the loop
RECURSIVE RotationAttempts(_, _)
RotationAttempts(pm, attempts) ==
    IF attempts = 0 THEN [pm |-> pm, client |-> 0, tried |-> << >>]
    ELSE CHOOSE out \in {IF r.client # 0 THEN r ELSE RotationAttempts(r.pm, attempts - 1) :
                             r \in {GetWeb3WithRotation(pm)}} : TRUE

\* which rotation loop an iteration whose get_logs raises enters: 4 attempts
\* after the third consecutive error (line 1417), 3 attempts after a limit
\* signal at the floor (line 1449), none otherwise
RotationLoop(sc, limit) ==
    IF sc.consecutive_errors + 1 >= MAX_CONSECUTIVE_ERRORS THEN 4
    ELSE IF limit /\ sc.current_batch_size <= MIN_BATCH_SIZE THEN 3
    ELSE 0

\* get_logs through the client of main succeeds
GetLogsAnswered(p) ==
    /\ px.health[px.w3] = "healthy"
    /\ GetLogsOk(p)

\* get_logs through the client of main raises and the handler runs
GetLogsRaises(p, limit) ==
    LET sc == scanner[p]
        r == RotationAttempts(px, RotationLoop(sc, limit))
        rotated == r.client # 0
    IN  /\ sc.pc = "loop"
        /\ sc.current_from <= sc.latest_block
        /\ scanner' = [scanner EXCEPT ![p] = FailedScanner(sc, limit, rotated)]
        /\ status_file' = [status_file EXCEPT ![fs[p]] = FailedStatus(sc, rotated)]
        /\ px' = [r.pm EXCEPT !.w3 = IF rotated THEN r.client ELSE @]
        /\ UNCHANGED <<chain, head, csv, lock, checkpoint_file, fs>>

\* the endpoints fail requests of a pass at most MaxFailures times
RpcRaises(p) ==
    /\ scanner[p].failed_requests < MaxFailures
    /\ \E limit \in BOOLEAN : GetLogsRaises(p, limit)

\* the manager after the get_web3_with_rotation of line 871, for every
\* health of the endpoints that lets that call return a client
InitRotate ==
    /\ chain = << PlainLog(100, 1) >>
    /\ head = FROM_BLOCK + HeadOffsets[1]
    /\ csv = [d \in DataDirs |-> CanonicalFile]
    /\ lock = [d \in DataDirs |-> 0]
    /\ status_file = [d \in DataDirs |-> NoStatus]
    /\ checkpoint_file = [d \in DataDirs |-> 0]
    /\ fs = [p \in Procs |-> 1]
    /\ scanner = [p \in Procs |-> IdleScanner]
    /\ \E health \in [Endpoints -> {"healthy", "probe_only", "down"}] :
         LET fresh == [pc |-> "rpc", health |-> health, w3 |-> 0, sticky |-> 0,
                       sticky_chain |-> 0, last_index |-> 0,
                       error_count |-> [e \in Endpoints |-> 0]]
             r == GetWeb3WithRotation(fresh)
         IN  /\ r.client # 0
             /\ px = [r.pm EXCEPT !.w3 = r.client]

NextRotate ==
    \/ StartPass(1)
    \/ LoadExisting(1)
    \/ GetLogsAnswered(1)
    \/ ProcessLog(1)
    \/ AppendLock(1)
    \/ AppendWrite(1)
    \/ NextBatch(1)
    \/ Finish(1)
    \/ RpcRaises(1)
    \/ Mine

SpecRotate == InitRotate /\ [][NextRotate]_vars

-----------------------------------------------------------------------------
(* An outage: from some point on no endpoint answers anything.              *)

AllDown == \A e \in Endpoints : px.health[e] = "down"

Outage ==
    /\ ~AllDown
    /\ px' = [px EXCEPT !.health = [e \in Endpoints |-> "down"]]
    /\ UNCHANGED <<chain, head, csv, lock, status_file, checkpoint_file, fs, scanner>>

\* every get_logs of the outage raises, with any message
OutageRaises(p) == AllDown /\ \E limit \in BOOLEAN : GetLogsRaises(p, limit)

\* the steps of the scanner thread; a pass starts only when line 871 gets a
\* client
ScannerStep ==
    \/ (~AllDown /\ StartPass(1))
    \/ LoadExisting(1)
    \/ GetLogsAnswered(1)
    \/ ProcessLog(1)
    \/ AppendLock(1)
    \/ AppendWrite(1)
    \/ NextBatch(1)
    \/ Finish(1)
    \/ OutageRaises(1)

NextOutage == ScannerStep \/ Outage

\* the thread of the scanner keeps running: every sleep of the handler is
\* finite (2 s, 5..60 s, 120 s)
SpecOutage == InitRotate /\ [][NextOutage]_vars /\ WF_vars(ScannerStep)

-----------------------------------------------------------------------------
(* Exceptions inside the forward batch loop: where each one is raised and   *)
(* which handler catches it.                                                *)

Sites == {"get_logs", "rotation", "decode", "metadata", "price", "append", "status"}

\* a loop whose status write is not guarded
UnguardedStatus(site) == IF site = "status" THEN "none" ELSE "batch_handler"

\* the innermost try around each site:
\*   get_logs   w3.eth.get_logs, in the try of line 1110 (handler 1410)
\*   rotation   get_web3_with_rotation in the handler, tries of 1418 and 1450
\*   decode     topics and data of a log, try of line 1145 (handler 1204)
\*   metadata   _get_token_symbol, _get_token_decimals, the token amounts and
\*              normalize_event_data_for_write (lines 1209-1212, 1279-1367):
\*              in no try of their own, so in the one of line 1110
\*   price      get_aave_asset_price, tries of lines 1234 and 1257
\*   append     append_row_if_tx_missing, try of line 1369
\*   status     write_status, whose body is a try (lines 1022-1050)
CaughtBy(site) ==
    CASE site \in {"get_logs", "metadata"} -> "batch_handler"
      [] site = "rotation" -> "rotation_try"
      [] site = "decode" -> "log_try"
      [] site = "price" -> "price_try"
      [] site = "append" -> "append_try"
      [] site = "status" -> "write_status"

\* the site is being executed
AtSite(sc, site) ==
    CASE site \in {"get_logs", "rotation", "status"} ->
             sc.pc = "loop" /\ sc.current_from <= sc.latest_block
      [] site \in {"decode", "metadata", "price"} ->
             sc.pc = "logs" /\ sc.batch_logs # << >>
      [] site = "append" -> sc.pc \in {"append", "locked"}

\* an exception no handler catches ends main
Escapes(p, site) ==
    /\ AtSite(scanner[p], site)
    /\ scanner' = [scanner EXCEPT ![p] =
           [scanner[p] EXCEPT !.pc = "returned", !.result = "raised"]]
    /\ lock' = [lock EXCEPT ![fs[p]] = IF lock[fs[p]] = p THEN 0 ELSE lock[fs[p]]]
    /\ UNCHANGED <<chain, head, csv, status_file, checkpoint_file, fs, px>>

\* every rotation attempt of the handler raises
RotationRaises(p) ==
    \E limit \in BOOLEAN :
        /\ RotationLoop(scanner[p], limit) > 0
        /\ GetLogsFail(p, limit, FALSE)

\* an exception between the tries of the per-log body reaches the handler of
\* line 1410 like a failed get_logs: the whole batch is requested again
MetadataRaises(p, limit, rotated) ==
    LET sc == scanner[p]
        raw == Head(sc.batch_logs)
    IN  /\ sc.pc = "logs"
        /\ sc.batch_logs # << >>
        /\ Lower(TxHash(raw.transactionHash)) \notin sc.existing_txs
        /\ scanner' = [scanner EXCEPT ![p] =
               [FailedScanner(sc, limit, rotated) EXCEPT
                    !.pc = "loop", !.current_to = sc.current_to, !.batch_logs = << >>]]
        /\ status_file' = [status_file EXCEPT ![fs[p]] =
               IF sc.consecutive_errors + 1 >= MAX_CONSECUTIVE_ERRORS /\ ~rotated
               THEN StatusPayload(sc, "waiting", sc.current_from, sc.total_events_found)
               ELSE @]
        /\ UNCHANGED <<chain, head, csv, lock, checkpoint_file, fs, px>>

\* get_aave_asset_price raises for an asset of the log: the price stays 0
PriceRaises(p) ==
    LET raw == Head(scanner[p].batch_logs)
    IN  /\ scanner[p].batch_logs # << >>
        /\ \/ GetAaveAssetPrice(raw.collateral).kind = "raise"
           \/ GetAaveAssetPrice(raw.debt).kind = "raise"
        /\ ProcessLog(p)

\* the write_status of line 1108 fails: the file keeps its content
StatusWriteFails(p) ==
    LET sc == scanner[p]
    IN  /\ sc.pc = "loop"
        /\ sc.current_from <= sc.latest_block
        /\ scanner' = [scanner EXCEPT ![p] = Fetched(sc)]
        /\ UNCHANGED <<chain, head, csv, lock, status_file, checkpoint_file, fs, px>>

LoopFault(p, site) ==
    IF CaughtBy(site) = "none" THEN Escapes(p, site)
    ELSE CASE site = "get_logs" -> RpcFaultWithin(p)
           [] site = "rotation" -> scanner[p].failed_requests < MaxFailures /\ RotationRaises(p)
           [] site = "decode" -> DecodeFail(p)
           [] site = "metadata" ->
                  /\ scanner[p].failed_requests < MaxFailures
                  /\ \E limit \in BOOLEAN, rotated \in BOOLEAN : MetadataRaises(p, limit, rotated)
           [] site = "price" -> PriceRaises(p)
           [] site = "append" -> AppendRaises(p)
           [] site = "status" -> StatusWriteFails(p)

\* sUSDe with CAPO parameters and neither oracle nor feed answering: the
\* resolver raises
RaisingQuote ==
    [asset |-> AssetOf(TRUE, FALSE, FALSE, FALSE, FALSE),
     oracle |-> "none", direct |-> "none", oracle_inner |-> "none",
     lsd_inner |-> "none", composition |-> "none", capo_params |-> TRUE,
     raw_lsd |-> "pos"]

InitLoop ==
    InitWith({ << EventLog(100, 1, RaisingQuote, PlainQuote), PlainLog(700, 2) >> },
             {CanonicalFile}, [p \in Procs |-> 1])

NextLoop ==
    \/ Pass(1)
    \/ \E site \in Sites : LoopFault(1, site)
    \/ Mine

SpecLoop == InitLoop /\ [][NextLoop]_vars

-----------------------------------------------------------------------------
(* The application (app.py): the scheduler thread of                        *)
(* start_periodic_liquidations_update calls main as scanner 1, the handler  *)
(* of /api/aave/liquidations/scan calls it as scanner 2.  px holds:         *)
(*   sched         where run() is: "start", "call" (inside scan_aave_v3),   *)
(*                 "sleep" (inside time.sleep(60))                          *)
(*   skip_initial  SKIP_INITIAL_SCAN is set                                 *)
(*   initial       the call is the one of the first run                     *)
(*   base          the passes of scanner 1 before the call                  *)
(*   since_end     seconds slept since the previous call returned           *)
(*   http, http_base  the same for the request handler                      *)
(*   cancel        a cancellation has been requested from outside           *)

\* main raises before its loop: no client (line 871), a failed assert
\* (lines 873-876) or ensure_master_csv_exists (line 900)
StartRaises(p) ==
    LET sc == scanner[p]
    IN  /\ sc.pc \in {"idle", "returned"}
        /\ sc.passes < MaxPasses
        /\ scanner' = [scanner EXCEPT ![p] =
               [sc EXCEPT !.passes = sc.passes + 1, !.pc = "returned", !.result = "raised"]]
        /\ UNCHANGED <<chain, head, csv, lock, status_file, checkpoint_file, fs, px>>

\* the steps of main once it has started
InsideMain(p) ==
    \/ LoadExisting(p)
    \/ GetLogsOk(p)
    \/ ProcessLog(p)
    \/ AppendLock(p)
    \/ AppendWrite(p)
    \/ NextBatch(p)
    \/ Finish(p)

OnlyPx == UNCHANGED <<chain, head, csv, lock, status_file, checkpoint_file, fs, scanner>>

\* run(): the first lines (425-448)
SchedStart ==
    /\ px.sched = "start"
    /\ px' = IF px.skip_initial THEN [px EXCEPT !.sched = "sleep"]
             ELSE [px EXCEPT !.sched = "call", !.initial = TRUE, !.base = scanner[1].passes]
    /\ OnlyPx

\* scan_aave_v3(to_block="latest") is entered (lines 445, 468)
SchedEnter ==
    /\ px.sched = "call"
    /\ scanner[1].passes = px.base
    /\ (StartPass(1) \/ StartRaises(1))

\* a scheduler that calls again at once after a pass that raised
RetryAtOnce(result) == IF result = "raised" THEN "call" ELSE "sleep"

\* where run() goes when the call has returned or raised: both the normal
\* path and the except branch (lines 480-483) go back to time.sleep(60)
AfterPass(result) == "sleep"

SchedReturn ==
    /\ px.sched = "call"
    /\ scanner[1].passes > px.base
    /\ scanner[1].pc = "returned"
    /\ px' = [px EXCEPT !.sched = AfterPass(scanner[1].result), !.initial = FALSE,
                        !.since_end = 0, !.base = scanner[1].passes]
    /\ OnlyPx

\* time.sleep(60), then the next call (lines 456-468)
SchedSleep ==
    /\ px.sched = "sleep"
    /\ px' = [px EXCEPT !.sched = "call", !.since_end = @ + SCAN_INTERVAL]
    /\ OnlyPx

\* a request to /api/aave/liquidations/scan (lines 863-879)
HttpRequest ==
    /\ px.http = "idle"
    /\ scanner[2].passes < MaxPasses
    /\ px' = [px EXCEPT !.http = "call", !.http_base = scanner[2].passes]
    /\ OnlyPx

HttpEnter ==
    /\ px.http = "call"
    /\ scanner[2].passes = px.http_base
    /\ (StartPass(2) \/ StartRaises(2))

\* the response: success, or 500 when main raised
HttpReturn ==
    /\ px.http = "call"
    /\ scanner[2].passes > px.http_base
    /\ scanner[2].pc = "returned"
    /\ px' = [px EXCEPT !.http = "idle"]
    /\ OnlyPx

\* somebody asks the running scan to stop
RequestCancel ==
    /\ ~px.cancel
    /\ \E p \in Procs : scanner[p].pc \in {"load", "loop", "logs", "append", "locked"}
    /\ px' = [px EXCEPT !.cancel = TRUE]
    /\ OnlyPx

InitApp ==
    /\ chain = << PlainLog(100, 1) >>
    /\ head = FROM_BLOCK + HeadOffsets[1]
    /\ csv = [d \in DataDirs |-> CanonicalFile]
    /\ lock = [d \in DataDirs |-> 0]
    /\ status_file = [d \in DataDirs |-> NoStatus]
    /\ checkpoint_file = [d \in DataDirs |-> 0]
    /\ fs = [p \in Procs |-> 1]
    /\ scanner = [p \in Procs |-> IdleScanner]
    /\ \E skip \in BOOLEAN :
         px = [pc |-> "app", sched |-> "start", skip_initial |-> skip, initial |-> FALSE,
               base |-> 0, since_end |-> 0, http |-> "idle", http_base |-> 0,
               cancel |-> FALSE]

\* the scheduler thread alone
SchedStep ==
    \/ SchedStart
    \/ SchedEnter
    \/ InsideMain(1)
    \/ SchedReturn
    \/ SchedSleep

NextSched == SchedStep \/ Mine

\* the thread is not a daemon and runs as long as the process
SpecSched == InitApp /\ [][NextSched]_vars /\ WF_vars(SchedStep)

\* the scheduler thread and the request handlers
NextApp ==
    \/ SchedStep
    \/ HttpRequest
    \/ HttpEnter
    \/ InsideMain(2)
    \/ HttpReturn
    \/ Mine

SpecApp == InitApp /\ [][NextApp]_vars

\* the scheduler thread and a cancellation request
NextCancel ==
    \/ SchedStep
    \/ RequestCancel
    \/ Mine

SpecCancel == InitApp /\ [][NextCancel]_vars

-----------------------------------------------------------------------------
(* ProviderManager.get_web3 called again and again on one manager          *)
(* (web3_utils.py, lines 146-237), the endpoints changing in between.  px  *)
(* holds the manager (health, sticky, sticky_chain, last_index,            *)
(* error_count) and, of the last call,                                     *)
(*   client        the endpoint of the client returned, 0 for None         *)
(*   client_chain  the chain id that client reported when it was connected *)
(*   tried         the endpoints tried, in order                           *)
(*   before        the endpoints, _last_index and the error counts when    *)
(*                 the call began                                          *)
(*   returned      the last call has just returned                         *)
(*   calls         calls made so far                                       *)

\* no scanner at work: an empty chain and the files as shipped
Quiet ==
    /\ chain = << >>
    /\ head = FROM_BLOCK
    /\ csv = [d \in DataDirs |-> CanonicalFile]
    /\ lock = [d \in DataDirs |-> 0]
    /\ status_file = [d \in DataDirs |-> NoStatus]
    /\ checkpoint_file = [d \in DataDirs |-> 0]
    /\ fs = [p \in Procs |-> 1]
    /\ scanner = [p \in Procs |-> IdleScanner]

PoolHealth == {"healthy", "wrong_chain", "no_chain", "down"}

PoolCall(force_new, sticky) ==
    /\ px.pc = "pool"
    /\ px.calls < MaxPoolCalls
    /\ LET r == GetWeb3(px, force_new, sticky)
       IN  px' = [r.pm EXCEPT
                    !.client = r.client,
                    !.client_chain = IF r.client = 0 THEN 0
                                     ELSE IF r.tried = << >> THEN px.sticky_chain
                                     ELSE ChainId(px.health, r.client),
                    !.tried = r.tried,
                    !.before = [health |-> px.health, last_index |-> px.last_index,
                                error_count |-> px.error_count],
                    !.returned = TRUE,
                    !.calls = @ + 1]
    /\ OnlyPx

\* between two calls, after the caller is done with the client returned: an
\* endpoint goes down, comes back or starts to serve another chain
HealthChange(e, h) ==
    /\ px.pc = "pool"
    /\ px.returned
    /\ px.calls < MaxPoolCalls
    /\ px.health[e] # h
    /\ px' = [px EXCEPT !.health[e] = h, !.returned = FALSE, !.client = 0,
                         !.client_chain = 0, !.tried = << >>,
                         !.before = [health |-> px.health, last_index |-> px.last_index,
                                     error_count |-> px.error_count]]
    /\ OnlyPx

InitPool ==
    /\ Quiet
    /\ \E health \in [Endpoints -> PoolHealth] :
          px = [pc |-> "pool", health |-> health, sticky |-> 0, sticky_chain |-> 0,
                last_index |-> 0, error_count |-> [e \in Endpoints |-> 0],
                client |-> 0, client_chain |-> 0, tried |-> << >>,
                before |-> [health |-> health, last_index |-> 0,
                            error_count |-> [e \in Endpoints |-> 0]],
                returned |-> FALSE, calls |-> 0]

NextPool ==
    \/ \E force_new \in BOOLEAN, sticky \in BOOLEAN : PoolCall(force_new, sticky)
    \/ \E e \in Endpoints, h \in PoolHealth : HealthChange(e, h)

SpecPool == InitPool /\ [][NextPool]_vars

-----------------------------------------------------------------------------
(* track_rpc_success and track_rpc_error (web3_utils.py, lines 28-38)      *)
(* called by two threads for one endpoint.  No lock is taken, and          *)
(* counter[url] += 1 is a read of the counter followed by a write of the   *)
(* value read plus one; another thread may run in between.  px holds       *)
(*   success, errors   _rpc_call_success[url] and _rpc_call_errors[url]    *)
(*   worker            of each thread: at ("idle", "success" or "error",   *)
(*                     the counter it is about to write) and the value     *)
(*                     read                                                *)
(*   n, m              successful and failed calls that began recording    *)

\* the first half of +=: the value of the counter is read
TrackRead(w, outcome) ==
    /\ px.pc = "track"
    /\ px.worker[w].at = "idle"
    /\ px.n + px.m < MaxRecorded
    /\ px' = [px EXCEPT
                !.worker[w] = [at |-> outcome,
                               read |-> IF outcome = "success" THEN px.success
                                        ELSE px.errors],
                !.n = IF outcome = "success" THEN @ + 1 ELSE @,
                !.m = IF outcome = "error" THEN @ + 1 ELSE @]
    /\ OnlyPx

\* the second half: the value read plus one is stored
TrackWrite(w) ==
    /\ px.pc = "track"
    /\ px.worker[w].at # "idle"
    /\ px' = [px EXCEPT
                !.success = IF px.worker[w].at = "success" THEN px.worker[w].read + 1
                            ELSE @,
                !.errors = IF px.worker[w].at = "error" THEN px.worker[w].read + 1
                           ELSE @,
                !.worker[w] = [at |-> "idle", read |-> 0]]
    /\ OnlyPx

InitTrack ==
    /\ Quiet
    /\ px = [pc |-> "track", success |-> 0, errors |-> 0,
             worker |-> [w \in Procs |-> [at |-> "idle", read |-> 0]],
             n |-> 0, m |-> 0]

NextTrack ==
    \/ \E w \in Procs, outcome \in {"success", "error"} : TrackRead(w, outcome)
    \/ \E w \in Procs : TrackWrite(w)

SpecTrack == InitTrack /\ [][NextTrack]_vars

-----------------------------------------------------------------------------
(* The writers of data/scan_status.json (scanner): write_status of main    *)
(* (lines 1007-1050), sync_scan_status_from_csv (lines 236-271) and the    *)
(* idle write of main (lines 976-992), step by step, and a reader of the   *)
(* file.  px holds                                                         *)
(*   file     the status file: the number of the payload in it and how     *)
(*            much of it is there: "all", "none" (the file is empty) or    *)
(*            "absent" (there is no file)                                  *)
(*   writer   the writer at work, "none" between writes                    *)
(*   at       its position: "temp" (temporary file written), "remove",     *)
(*            "rename", "open", "dump"                                     *)
(*   writes   payloads written or begun so far                             *)
(*   seen     what the reader found when it last opened the file           *)

StatusWriters == {"write_status", "sync_scan_status_from_csv", "idle"}

\* write_status dumps the payload into a temporary file; the other two open
\* the status file itself
BeginWrite(writer) ==
    /\ px.pc = "status"
    /\ px.writer = "none"
    /\ px.writes < MaxWrites
    /\ px' = [px EXCEPT !.writer = writer, !.writes = @ + 1,
                        !.at = IF writer = "write_status" THEN "temp" ELSE "open"]
    /\ OnlyPx

\* os.replace(tmp_path, status_fn), line 1036
Replace(ok) ==
    /\ px.pc = "status"
    /\ px.at = "temp"
    /\ px' = IF ok
             THEN [px EXCEPT !.file = [payload |-> px.writes, written |-> "all"],
                             !.writer = "none", !.at = "none"]
             ELSE [px EXCEPT !.at = "remove"]
    /\ OnlyPx

\* the fallback of lines 1040-1041: os.remove(status_fn)
RemoveTarget(ok) ==
    /\ px.pc = "status"
    /\ px.at = "remove"
    /\ px' = IF ok
             THEN [px EXCEPT !.file = [payload |-> 0, written |-> "absent"],
                             !.at = "rename"]
             ELSE [px EXCEPT !.at = "open"]
    /\ OnlyPx

\* os.rename(tmp_path, status_fn), line 1042
Rename(ok) ==
    /\ px.pc = "status"
    /\ px.at = "rename"
    /\ px' = IF ok
             THEN [px EXCEPT !.file = [payload |-> px.writes, written |-> "all"],
                             !.writer = "none", !.at = "none"]
             ELSE [px EXCEPT !.at = "open"]
    /\ OnlyPx

\* open(status_fn, 'w'): the file is created or cut to length 0
OpenForWrite ==
    /\ px.pc = "status"
    /\ px.at = "open"
    /\ px' = [px EXCEPT !.file = [payload |-> px.writes, written |-> "none"],
                        !.at = "dump"]
    /\ OnlyPx

\* json.dump and the end of the with block: the payload reaches the file
DumpAndClose ==
    /\ px.pc = "status"
    /\ px.at = "dump"
    /\ px' = [px EXCEPT !.file = [payload |-> px.writes, written |-> "all"],
                        !.writer = "none", !.at = "none"]
    /\ OnlyPx

\* the frontend opens the file and reads it
ReadStatus ==
    /\ px.pc = "status"
    /\ px.seen # px.file
    /\ px' = [px EXCEPT !.seen = px.file]
    /\ OnlyPx

InitStatus ==
    /\ Quiet
    /\ px = [pc |-> "status", file |-> [payload |-> 0, written |-> "all"],
             writer |-> "none", at |-> "none", writes |-> 0,
             seen |-> [payload |-> 0, written |-> "all"]]

NextStatus ==
    \/ \E writer \in StatusWriters : BeginWrite(writer)
    \/ \E ok \in BOOLEAN : Replace(ok)
    \/ \E ok \in BOOLEAN : RemoveTarget(ok)
    \/ \E ok \in BOOLEAN : Rename(ok)
    \/ OpenForWrite
    \/ DumpAndClose
    \/ ReadStatus

SpecStatus == InitStatus /\ [][NextStatus]_vars

-----------------------------------------------------------------------------
(* backfill_missing_prices (scanner, lines 1695-1848) run as a second      *)
(* process next to a scanning pass on the same data dir.  px holds         *)
(*   at          "start", "loaded" (the rows are read and the prices       *)
(*               fetched), "done"                                          *)
(*   fieldnames  reader.fieldnames                                         *)
(*   rows        list(reader), with the prices filled in                   *)

\* col_missing or debt_missing of lines 1722-1723
PriceMissing(cell) == cell = Empty \/ cell = Num(0)

\* one row after the loop of lines 1743-1826, price being what
\* get_aave_asset_price returns for its assets now
BackfillRow(r, price, collateralOut, debtToCover) ==
    LET col == PriceMissing(r.collateral_price_usd_at_block) /\ price > 0
        debt == PriceMissing(r.debt_price_usd_at_block) /\ price > 0
    IN  [r EXCEPT
           !.collateral_price_usd_at_block = IF col THEN Num(price) ELSE @,
           !.collateral_value_usd = IF col THEN Num(collateralOut * price) ELSE @,
           !.debt_price_usd_at_block = IF debt THEN Num(price) ELSE @,
           !.debt_value_usd = IF debt THEN Num(debtToCover * price) ELSE @]

\* lines 1700-1826: the CSV is read without the lock; with no price missing the
\* function returns
BackfillRead(price) ==
    LET file == csv[1]
        rows == DictRows(file)
        missing == {i \in DOMAIN rows :
                       \/ PriceMissing(rows[i].collateral_price_usd_at_block)
                       \/ PriceMissing(rows[i].debt_price_usd_at_block)}
        amounts == PlainLog(0, 0)
    IN  /\ px.pc = "backfill"
        /\ px.at = "start"
        /\ px' = IF ~file.exists \/ missing = {}
                 THEN [px EXCEPT !.at = "done"]
                 ELSE [px EXCEPT
                         !.at = "loaded",
                         !.fieldnames = file.header,
                         !.rows = [i \in DOMAIN rows |->
                                      IF i \in missing
                                      THEN BackfillRow(rows[i], price,
                                               amounts.collateralAmount, amounts.debtToCover)
                                      ELSE rows[i]]]
        /\ OnlyPx

\* lines 1828-1846: open(csv_path, 'w') and writerows(rows), without the lock;
\* sync_scan_status_from_csv runs inside the with block and reads the CSV
\* either before the rows have left the buffer (flushed false) or after
BackfillWrite(flushed) ==
    LET written == [exists |-> TRUE, header |-> px.fieldnames, rows |-> px.rows]
        truncated == [exists |-> TRUE, header |-> << >>, rows |-> << >>]
    IN  /\ px.pc = "backfill"
        /\ px.at = "loaded"
        /\ csv' = [csv EXCEPT ![1] = written]
        /\ status_file' = [status_file EXCEPT ![1] =
               SyncPayload(IF flushed THEN written ELSE truncated, "running", 0, 0)]
        /\ px' = [px EXCEPT !.at = "done"]
        /\ UNCHANGED <<chain, head, lock, checkpoint_file, fs, scanner>>

InitBackfill ==
    /\ chain = << EventLog(100, 1, UnpricedQuote, PlainQuote), PlainLog(700, 2) >>
    /\ head = FROM_BLOCK + HeadOffsets[1]
    /\ csv = [d \in DataDirs |-> CanonicalFile]
    /\ lock = [d \in DataDirs |-> 0]
    /\ status_file = [d \in DataDirs |-> NoStatus]
    /\ checkpoint_file = [d \in DataDirs |-> 0]
    /\ fs = [p \in Procs |-> 1]
    /\ scanner = [p \in Procs |-> IdleScanner]
    /\ px = [pc |-> "backfill", at |-> "start", fieldnames |-> << >>, rows |-> << >>]

NextBackfill ==
    \/ Pass(1)
    \/ \E price \in {0, LayerPrice("aave_oracle")} : BackfillRead(price)
    \/ \E flushed \in BOOLEAN : BackfillWrite(flushed)

SpecBackfill == InitBackfill /\ [][NextBackfill]_vars

-----------------------------------------------------------------------------
(* reconcile_master_csv_header (scanner, lines 183-233) called on any      *)
(* master CSV, up to twice.  px holds                                      *)
(*   before   the file as it was before the first call                     *)
(*   first    the file as the first call left it                           *)
(*   calls    calls made                                                   *)

\* headers a master CSV may carry: the canonical one, the canonical columns in
\* another order, some of them, some of them and a foreign column, none (a
\* file that begins with a data line, or an empty file)
ReconcileHeaders ==
    { CSV_FIELD_ORDER,
      << "tx", "debt_value_usd", "collateral_value_usd", "debt_price_usd_at_block",
         "collateral_price_usd_at_block", "block" >>,
      << "tx", "block" >>,
      << "block", "legacy", "collateral_price_usd_at_block" >>,
      << "legacy" >>,
      << >> }

ReconcileRows ==
    { [NoRow EXCEPT !.block = FROM_BLOCK + 100 * i, !.tx = [id |-> i, upper |-> FALSE],
                    !.collateral_price_usd_at_block = Num(i),
                    !.debt_value_usd = Num(i + 1)] : i \in 1..2 }

ReconcileFiles ==
    {NoFile} \cup
    { [exists |-> TRUE, header |-> h, rows |-> rows] :
        h \in ReconcileHeaders,
        rows \in {<< >>} \cup {<<r>> : r \in ReconcileRows}
                 \cup {<<r1, r2>> : r1 \in ReconcileRows, r2 \in ReconcileRows} }

ReconcileCall ==
    /\ px.pc = "reconcile"
    /\ px.calls < MaxCalls
    /\ csv' = [csv EXCEPT ![1] = ReconcileMasterCsvHeader(csv[1])]
    /\ px' = [px EXCEPT !.calls = @ + 1,
                        !.first = IF px.calls = 0 THEN csv'[1] ELSE @]
    /\ UNCHANGED <<chain, head, lock, status_file, checkpoint_file, fs, scanner>>

InitReconcile ==
    /\ chain = << >>
    /\ head = FROM_BLOCK
    /\ \E f \in ReconcileFiles :
          /\ csv = [d \in DataDirs |-> f]
          /\ px = [pc |-> "reconcile", before |-> f, first |-> f, calls |-> 0]
    /\ lock = [d \in DataDirs |-> 0]
    /\ status_file = [d \in DataDirs |-> NoStatus]
    /\ checkpoint_file = [d \in DataDirs |-> 0]
    /\ fs = [p \in Procs |-> 1]
    /\ scanner = [p \in Procs |-> IdleScanner]

NextReconcile == ReconcileCall

SpecReconcile == InitReconcile /\ [][NextReconcile]_vars

-----------------------------------------------------------------------------
(* One scanner whose logs may fail to decode; the scanner thread keeps      *)
(* running, so a step of the pass that can be taken is taken.               *)
NextDecode ==
    \/ Pass(1)
    \/ DecodeFail(1)

SpecDecode == Init /\ [][NextDecode]_vars /\ WF_vars(Pass(1))

-----------------------------------------------------------------------------
(* get_logs_chunked (web3_utils.py, lines 263-333) and the statistics of    *)
(* the calls it makes.  px holds the arguments, the local variables chunk,  *)
(* to_blk and logs, and                                                     *)
(*   done      the subranges left behind, newest last: [frm, to, ok], ok    *)
(*             FALSE for a skipped one                                      *)
(*   tracked   w3 is a TrackedWeb3 vended by ProviderManager.get_web3       *)
(*   url_set   _current_provider_url is not None                            *)
(*   calls     JSON-RPC calls made through w3                               *)
(*   success, errors, times   _rpc_call_success, _rpc_call_errors and the   *)
(*             length of _rpc_response_times of the endpoint of w3          *)
(*   failures  calls that raised so far                                     *)

\* the logs of the contract, <<block, index in block>>, in chain order
ChunkLogs == << <<2, 1>>, <<2, 2>>, <<5, 1>> >>

LogsIn(frm, to) == SelectSeq(ChunkLogs, LAMBDA l : frm <= l[1] /\ l[1] <= to)

\* a cursor that leaves one block out below every subrange
CursorSkipsBlock(frm) == frm - 2

\* to_blk = frm - 1 (lines 315 and 331)
CursorBelow(frm) == frm - 1

\* frm = max(from_block, to_blk - chunk + 1) (line 296)
ChunkFrom(c) == Max2(c.from_block, c.to_blk - c.chunk + 1)

\* what one call through w3 adds to the statistics: TrackedEth.tracked_call
\* counts it when w3 is tracked (lines 64-75), and get_logs_chunked counts it
\* again when _current_provider_url is set (lines 307-310, 319-320)
Recorded(tracked, url_set) ==
    (IF tracked THEN 1 ELSE 0) + (IF url_set THEN 1 ELSE 0)

\* track_rpc_success sets _current_provider_url (line 33)
UrlAfterSuccess(tracked, url_set) == tracked \/ url_set

ChunkLoopEnds(c) == c.to_blk < c.from_block

\* get_logs answers (lines 298-315)
ChunkOk ==
    LET c == px
        frm == ChunkFrom(c)
        n == Recorded(c.tracked, c.url_set \/ c.tracked)
    IN  /\ c.pc = "chunk_loop"
        /\ ~ChunkLoopEnds(c)
        /\ px' = [c EXCEPT !.logs = c.logs \o LogsIn(frm, c.to_blk),
                           !.done = Append(c.done, [frm |-> frm, to |-> c.to_blk, ok |-> TRUE]),
                           !.to_blk = CursorBelow(frm),
                           !.calls = c.calls + 1,
                           !.success = c.success + n,
                           !.times = c.times + n,
                           !.url_set = UrlAfterSuccess(c.tracked, c.url_set)]
        /\ OnlyPx

\* get_logs raises (lines 317-331); range: the message holds "range",
\* "exceeds" or "too large"
ChunkRaises(range) ==
    LET c == px
        frm == ChunkFrom(c)
    IN  /\ c.pc = "chunk_loop"
        /\ ~ChunkLoopEnds(c)
        /\ c.failures < MaxFailures
        /\ px' = [c EXCEPT !.chunk = IF range THEN Max2(c.min_chunk, c.chunk \div 2) ELSE @,
                           !.done = IF range THEN @
                                    ELSE Append(@, [frm |-> frm, to |-> c.to_blk, ok |-> FALSE]),
                           !.to_blk = IF range THEN @ ELSE CursorBelow(frm),
                           !.calls = c.calls + 1,
                           !.errors = c.errors + Recorded(c.tracked, c.url_set),
                           !.failures = c.failures + 1]
        /\ OnlyPx

\* A provider that answers every request with "query returned more than N
\* results ... range too large" (lines 321-327): chunk is halved down to
\* min_chunk, to_blk stays.  errors and failures are counted up to
\* MaxFailures and calls modulo MaxFailures + 1, so that the request re-issued
\* with chunk = min_chunk is a step that returns to a state seen before.
ChunkRejected ==
    LET c == px
    IN  /\ c.pc = "chunk_loop"
        /\ ~ChunkLoopEnds(c)
        /\ px' = [c EXCEPT !.chunk = Max2(c.min_chunk, c.chunk \div 2),
                           !.calls = (c.calls + 1) % (MaxFailures + 1),
                           !.errors = Min2(c.errors + Recorded(c.tracked, c.url_set),
                                           MaxFailures),
                           !.failures = Min2(c.failures + 1, MaxFailures)]
        /\ OnlyPx

\* return logs (line 333)
ChunkReturn ==
    /\ px.pc = "chunk_loop"
    /\ ChunkLoopEnds(px)
    /\ px' = [px EXCEPT !.pc = "chunk_done"]
    /\ OnlyPx

InitChunk ==
    /\ chain = << >>
    /\ head = FROM_BLOCK
    /\ csv = [d \in DataDirs |-> CanonicalFile]
    /\ lock = [d \in DataDirs |-> 0]
    /\ status_file = [d \in DataDirs |-> NoStatus]
    /\ checkpoint_file = [d \in DataDirs |-> 0]
    /\ fs = [p \in Procs |-> 1]
    /\ scanner = [p \in Procs |-> IdleScanner]
    /\ \E from_block \in 1..2, to_block \in 1..MaxBlock, initial_chunk \in {1, 2, 4, 8},
          min_chunk \in 1..2, tracked \in BOOLEAN, url_set \in BOOLEAN :
         px = [pc |-> "chunk_loop", from_block |-> from_block, to_block |-> to_block,
               initial_chunk |-> initial_chunk, min_chunk |-> min_chunk,
               chunk |-> initial_chunk, to_blk |-> to_block, logs |-> << >>,
               done |-> << >>, tracked |-> tracked, url_set |-> url_set \/ tracked,
               calls |-> 0, success |-> 0, errors |-> 0, times |-> 0, failures |-> 0]

NextChunk ==
    \/ ChunkOk
    \/ \E range \in BOOLEAN : ChunkRaises(range)
    \/ ChunkReturn

SpecChunk == InitChunk /\ [][NextChunk]_vars

\* the function runs against a provider that rejects every range; the loop
\* takes its next step whenever there is one
NextReject ==
    \/ ChunkRejected
    \/ ChunkReturn

SpecReject == InitChunk /\ [][NextReject]_vars /\ WF_vars(NextReject)

-----------------------------------------------------------------------------
(* Properties *)

Rows(d) == csv[d].rows

\* the CSV of data dir d holds a row for the transaction of log l
HasRow(d, l) == \E i \in DOMAIN Rows(d) : Rows(d)[i].tx.id = l.transactionHash

RowsOf(d, l) == {i \in DOMAIN Rows(d) : Rows(d)[i].tx.id = l.transactionHash}

Completed(p) == scanner[p].pc = "returned" /\ scanner[p].result = "completed"

\* the events of the range a pass of p covers: resume block .. tip read at start
InRange(p) ==
    {l \in Range(chain) : /\ scanner[p].scan_from_block <= l.blockNumber
                          /\ l.blockNumber <= scanner[p].latest_block}

\* C1: whatever calls of append_row_if_tx_missing the scan passes of any
\* number of processes make on a CSV that starts with the canonical header,
\* no two rows of the file carry the same tx, compared without regard to case.
C1_NoDuplicateTx ==
    \A d \in DataDirs : \A i, j \in DOMAIN Rows(d) :
        i # j => Rows(d)[i].tx.id # Rows(d)[j].tx.id

\* a process was refused the append of a tx the other one had written
C1_Witness ==
    \E p \in Procs :
        /\ scanner[p].pc = "logs"
        /\ scanner[p].row # NoRow
        /\ ~scanner[p].appended
        /\ \E i \in DOMAIN Rows(1) : Rows(1)[i].tx.id = scanner[p].row.tx.id
        /\ Len(Rows(1)) >= 2

\* C2: two scanner processes over the same range: the read of the existing
\* tx values, the check and the write of one process never overlap those of
\* the other (both are under the exclusive lock), and once both passes have
\* completed every event of the range has exactly one row.
C2_OneRowPerEvent ==
    /\ ~(scanner[1].pc = "locked" /\ scanner[2].pc = "locked")
    /\ \A p \in Procs : scanner[p].pc = "locked" => lock[fs[p]] = p
    /\ (Completed(1) /\ Completed(2)) =>
           \A l \in InRange(1) \cup InRange(2) : Cardinality(RowsOf(1, l)) = 1

\* both first passes ran side by side to completion and each wrote rows
C2_Witness ==
    /\ Completed(1) /\ Completed(2)
    /\ scanner[1].passes = 1 /\ scanner[2].passes = 1
    /\ scanner[1].total_events_found > scanner[1].total_events_in_csv
    /\ scanner[2].total_events_found > scanner[2].total_events_in_csv
    /\ Len(Rows(1)) >= 2

C4_KilledPassRecovered ==
    Completed(1) =>
        \A l \in Range(chain) :
            l.blockNumber <= scanner[1].latest_block => Cardinality(RowsOf(1, l)) = 1

\* C5: a pass starts at the highest block of the CSV rows plus one when the
\* CSV has a row, and at FROM_BLOCK when it has none; so the pass after a
\* completed pass that wrote rows starts one block after the highest of them.
C5_ResumeBlock ==
    [][ scanner'[1].passes = scanner[1].passes + 1 =>
           scanner'[1].scan_from_block =
               IF Len(Rows(1)) >= 1
               THEN SetMax({Rows(1)[i].block : i \in DOMAIN Rows(1)}) + 1
               ELSE FROM_BLOCK ]_vars

\* the second pass, started one block after the rows the first one wrote
C5_Witness ==
    /\ scanner[1].passes = 2
    /\ scanner[1].pc = "load"
    /\ Len(Rows(1)) >= 2
    /\ scanner[1].scan_from_block = SetMax({Rows(1)[i].block : i \in DOMAIN Rows(1)}) + 1
    /\ scanner[1].scan_from_block > FROM_BLOCK

\* C6: two runs over the same chain from the same CSV, one of them beside a
\* different status file and checkpoint file: after the same number of
\* passes both started at the same blocks and hold the same CSV.
C6_FilesDoNotMatter ==
    (/\ scanner[1].pc = "returned" /\ scanner[2].pc = "returned"
     /\ scanner[1].passes = scanner[2].passes)
    => /\ csv[1] = csv[2]
       /\ scanner[1].scan_from_block = scanner[2].scan_from_block

\* both runs completed with rows, the second one beside a checkpoint file
\* that names the tip and a status file that says completed
C6_Witness ==
    /\ Completed(1) /\ Completed(2)
    /\ scanner[1].passes = 1 /\ scanner[2].passes = 1
    /\ Len(Rows(1)) >= 2
    /\ csv[1] = csv[2]
    /\ status_file[1] = status_file[2]

\* C7: a call of append_row_if_tx_missing on a file with the canonical header
\* and a row with a non-empty tx returns true exactly when no row of the
\* file carried that tx (compared without regard to case); then the file is
\* the old file followed by that row, otherwise the file is unchanged.
C7_AppendContract ==
    [][ scanner'[1].passes = scanner[1].passes + 1 =>
           LET row == scanner'[1].row
               present == \E i \in DOMAIN Rows(1) : Rows(1)[i].tx.id = row.tx.id
           IN  /\ scanner'[1].appended = ~present
               /\ scanner'[1].appended =>
                      csv'[1] = [csv[1] EXCEPT !.rows = Append(Rows(1), row)]
               /\ ~scanner'[1].appended => csv'[1] = csv[1] ]_vars

\* a call refused for a tx the file holds in the other case, after a call
\* that wrote
C7_Witness ==
    /\ scanner[1].passes = 2
    /\ ~scanner[1].appended
    /\ scanner[1].row.tx.upper
    /\ \E i \in DOMAIN Rows(1) :
          Rows(1)[i].tx.id = scanner[1].row.tx.id /\ ~Rows(1)[i].tx.upper
    /\ Len(Rows(1)) = 3

\* C8: an append that raised or returned false leaves the tx out of the
\* dedupe set and the counter as it was, and a later pass asks for the block
\* of that event again: no pass starts above the block of an event that has
\* no row, also when events of later blocks were written in the pass before.
C8_FailedAppendRetried ==
    /\ (scanner[1].pc = "logs" /\ scanner[1].row # NoRow /\ ~scanner[1].appended)
          => (\/ Lower(scanner[1].row.tx) \notin scanner[1].existing_txs
              \/ \E i \in DOMAIN Rows(1) : Rows(1)[i].tx.id = scanner[1].row.tx.id)
    /\ scanner[1].pc \in {"loop", "logs"} => scanner[1].total_events_found = Len(Rows(1))
    /\ scanner[1].passes >= 1 =>
          \A l \in Range(chain) :
              (l.blockNumber <= scanner[1].latest_block /\ ~HasRow(1, l))
                  => scanner[1].scan_from_block <= l.blockNumber

\* the cells of row r say what C9 asks for the event l they were built from
PriceColumnsAsSpecified(l, r) ==
    LET c == GetAaveAssetPrice(l.collateral)
        d == GetAaveAssetPrice(l.debt)
        cpos == c.kind = "price" /\ c.v > 0
        dpos == d.kind = "price" /\ d.v > 0
    IN  /\ ~cpos => r.collateral_price_usd_at_block = Empty
        /\ ~dpos => r.debt_price_usd_at_block = Empty
        /\ ~(cpos /\ dpos) => r.collateral_value_usd = Empty /\ r.debt_value_usd = Empty
        /\ (cpos /\ dpos) =>
              /\ r.collateral_price_usd_at_block = Num(c.v)
              /\ r.debt_price_usd_at_block = Num(d.v)
              /\ r.collateral_value_usd = Num(l.collateralAmount * c.v)
              /\ r.debt_value_usd = Num(l.debtToCover * d.v)

\* C9: when the resolver gives no positive price for the collateral or the
\* debt asset (None or an exception), the row is still written, that price
\* column is the empty string and not 0, and both value columns are empty;
\* the value columns are numbers only when both prices are positive.
C9_MissingPriceIsEmpty ==
    /\ Completed(1) => \A l \in InRange(1) : HasRow(1, l)
    /\ \A l \in Range(chain) : \A i \in RowsOf(1, l) :
          PriceColumnsAsSpecified(l, Rows(1)[i])

\* a written row whose collateral price raised and whose debt price is known
C9_Witness ==
    /\ Completed(1)
    /\ Len(Rows(1)) = 1
    /\ GetAaveAssetPrice(chain[1].collateral).kind = "raise"
    /\ GetAaveAssetPrice(chain[1].debt).kind = "price"
    /\ Rows(1)[1].collateral_price_usd_at_block = Empty
    /\ Rows(1)[1].debt_price_usd_at_block # Empty
    /\ Rows(1)[1].debt_value_usd = Empty

\* the layers in the order of the specification
LayerOrder ==
    << "aave_oracle", "chainlink_usd", "capo_lsd", "raw_lsd", "eth_composition", "stablecoin" >>

\* the layer answers with a positive price for the quote
Yields(q, name) ==
    CASE name = "aave_oracle" -> q.oracle = "pos"
      [] name = "chainlink_usd" -> q.direct = "pos"
      [] name = "capo_lsd" -> q.asset.feed_lsd /\ q.lsd_inner = "capped"
      [] name = "raw_lsd" -> q.asset.lsd /\ q.raw_lsd = "pos"
      [] name = "eth_composition" -> q.asset.eth_based /\ q.composition = "pos"
      [] name = "stablecoin" -> q.asset.stable

\* each layer has one outcome: the reads the code repeats agree
OneOutcomePerLayer(q) ==
    /\ q.oracle_inner = "pos" => q.oracle = "pos"
    /\ q.asset.feed_lsd => (q.raw_lsd = "pos" <=> q.lsd_inner # "none")
    /\ q.lsd_inner = "capped" => q.capo_params

\* C10: for every asset and every combination of per-layer outcomes the
\* resolver returns the price of the first layer, in the order Aave oracle,
\* Chainlink USD feed, capped LSD, raw LSD, ETH composition, stablecoin 1.0,
\* that yields a positive one, consults no layer after it, and returns null
\* only when no layer yields; 1.0 only when every earlier layer yielded none.
C10_FirstLayerWins ==
    (px.pc = "done" /\ OneOutcomePerLayer(px.q)) =>
        LET yielding == {k \in DOMAIN LayerOrder : Yields(px.q, LayerOrder[k])}
            first == LayerOrder[SetMin(yielding)]
        IN  /\ yielding # {} =>
                  /\ px.res.kind = "price"
                  /\ px.res.v = LayerPrice(first)
                  /\ px.res.trace[Len(px.res.trace)] = first
            /\ px.res.kind = "none" => yielding = {}

\* C11: whenever the LSD price path says the cap was applied, the price it
\* returns is at most underlying_price * max_ratio / 10^ratio_decimals, with
\* max_ratio computed from the parameters read at the event block and the
\* timestamp of that block; also for a raw price that exceeds the capped one
\* by 0.01 USD or less.
C11_CappedPriceBounded ==
    (px.pc = "lsd_done" /\ px.res.used_capo) =>
        LET c == px.c
            max_ratio == MaxRatio(c.snapshot_ratio, c.snapshot_ts,
                                  c.max_yearly_ratio_bps, c.block_ts)
        IN  px.res.price * max_ratio.den * Pow10(c.ratio_decimals)
                <= c.underlying_price * max_ratio.num

\* C12: two resolutions of the same symbol, asset and block against the same
\* on-chain state return the same value, whatever reads fail transiently in
\* one of them and not in the other.
C12_ResolutionDeterministic ==
    px.pc = "twice_done" =>
        /\ px.first.kind = px.second.kind
        /\ px.first.v = px.second.v

\* C13: in every state of a pass the batch size lies between 500 and 10000;
\* the pass starts with 1000, a successful request changes the size only to
\* min(2 * size, 10000), a failed one only to max(size div 2, 500) or to 1000.
BatchSizeInBounds ==
    \A p \in Procs :
        /\ MIN_BATCH_SIZE <= scanner[p].current_batch_size
        /\ scanner[p].current_batch_size <= MAX_BATCH_SIZE

BatchSizeStep ==
    \A p \in Procs :
        LET old == scanner[p].current_batch_size
            new == scanner'[p].current_batch_size
        IN  /\ scanner'[p].pc = "load" => new = INITIAL_BATCH_SIZE
            /\ (new # old /\ scanner[p].pc = "loop" /\ scanner'[p].pc = "logs")
                  => new = Min2(2 * old, MAX_BATCH_SIZE)
            /\ (new # old /\ scanner[p].pc = "loop" /\ scanner'[p].pc = "loop")
                  => new \in {Max2(old \div 2, MIN_BATCH_SIZE), INITIAL_BATCH_SIZE}
            /\ (new # old) => scanner[p].pc \in {"idle", "returned", "loop"}

C13_BatchSizeBounded == []BatchSizeInBounds /\ [][BatchSizeStep]_vars

\* the ceiling is reached in a pass that also saw requests rejected
C13_Witness ==
    /\ scanner[1].pc = "loop"
    /\ scanner[1].current_batch_size = MAX_BATCH_SIZE
    /\ scanner[1].failed_requests >= 2

\* C14: while the provider-limit flag of the pass is set the batch size never
\* increases; the flag is set by every halving and cleared only when a
\* rotation succeeds after a rejection at the floor, which puts the size back
\* to 1000, from where it grows again.
LimitedStep(p) ==
    LET old == scanner[p]
        new == scanner'[p]
    IN  (old.pc \in {"loop", "logs", "append", "locked"} /\ new.passes = old.passes) =>
           /\ (old.alchemy_limit_detected /\ new.alchemy_limit_detected)
                 => new.current_batch_size <= old.current_batch_size
           /\ (~old.alchemy_limit_detected /\ new.alchemy_limit_detected)
                 => new.current_batch_size = Max2(old.current_batch_size \div 2, MIN_BATCH_SIZE)
           /\ (old.alchemy_limit_detected /\ ~new.alchemy_limit_detected)
                 => /\ old.current_batch_size = MIN_BATCH_SIZE
                    /\ new.current_batch_size = INITIAL_BATCH_SIZE

C14_NoGrowthWhileLimited == [][\A p \in Procs : LimitedStep(p)]_vars

\* after the halving from 1000 to 500 a request succeeded and the size stayed
C14_Witness ==
    /\ scanner[1].pc = "logs"
    /\ scanner[1].alchemy_limit_detected
    /\ scanner[1].current_batch_size = MIN_BATCH_SIZE

\* C14 as stated: once a provider-limit signal has been observed in a pass,
\* the batch size never increases again during that pass.
C14_NoGrowthAfterLimit ==
    [][\A p \in Procs :
          (scanner[p].pc \in {"loop", "logs", "append", "locked"}
             /\ scanner[p].limit_observed
             /\ scanner'[p].passes = scanner[p].passes)
             => scanner'[p].current_batch_size <= scanner[p].current_batch_size]_vars

\* C15: after the third consecutive failed get_logs of a pass the counter of
\* consecutive errors is 0 and, when another configured endpoint is healthy,
\* the client of the next get_logs is on an endpoint different from the one
\* whose calls just failed, even if that one still answers the probe.
ThirdFailure(p) ==
    /\ scanner[p].pc = "loop"
    /\ scanner'[p].pc = "loop"
    /\ scanner[p].consecutive_errors = MAX_CONSECUTIVE_ERRORS - 1
    /\ scanner'[p].failed_requests > scanner[p].failed_requests

C15_RotatesAwayFromFailing ==
    [][ThirdFailure(1) =>
          /\ scanner'[1].consecutive_errors = 0
          /\ (\E e \in Endpoints \ {px.w3} : px.health[e] = "healthy")
                => px'.w3 # px.w3]_vars

\* C16: if from some point on every get_logs call and every rotation attempt
\* fails, the running pass eventually ends and returns to the scheduler.
PassEnded(p) == scanner[p].pc \in {"idle", "returned"}

C16_OutageEndsPass == AllDown ~> PassEnded(1)

\* C17: no exception leaves the forward batch loop: a failure of get_logs, of
\* the enrichment, of the CSV append, of a status write or of a provider
\* rotation inside the loop is caught and the loop goes on.
C17_NoExceptionLeavesLoop ==
    /\ \A p \in Procs : scanner[p].result # "raised"
    /\ \A p \in Procs :
          (scanner[p].pc = "loop" /\ scanner[p].current_from > scanner[p].latest_block)
              => GapsFound(scanner[p].scanned_ranges) = {}

\* a pass completed although requests failed and the resolver raised for the
\* first log, whose row has an empty collateral price
C17_Witness ==
    /\ scanner[1].result = "completed"
    /\ scanner[1].failed_requests = MaxFailures
    /\ \E i \in DOMAIN csv[1].rows :
          csv[1].rows[i].collateral_price_usd_at_block = Empty

\* C18: the scheduler thread starts the initial pass at once unless
\* SKIP_INITIAL_SCAN is set; every later pass starts 60 seconds after the
\* previous call ended; after a pass that raised, the scheduler sleeps and
\* another pass is started.
FirstLines ==
    (px.sched = "start" /\ px'.sched # "start") =>
        IF px.skip_initial THEN px'.sched = "sleep" /\ scanner' = scanner
        ELSE px'.sched = "call" /\ px'.initial /\ px'.since_end = 0

PassStartsAfterSleep ==
    scanner'[1].passes > scanner[1].passes =>
        /\ px.sched = "call"
        /\ px.initial \/ px.since_end = SCAN_INTERVAL
        /\ px.initial => ~px.skip_initial

C18_SchedulerKeepsRunning ==
    /\ [][FirstLines /\ PassStartsAfterSleep]_vars
    /\ \A n \in 1..(MaxPasses - 1) :
          (scanner[1].result = "raised" /\ scanner[1].passes = n)
              ~> (scanner[1].passes = n + 1)

\* the scheduler is back in its sleep after a pass that raised
C18_Witness ==
    /\ scanner[1].result = "raised"
    /\ px.sched = "sleep"
    /\ ~px.initial
    /\ px.since_end = 0

\* C19: at most one scan pass is executing at any time in the application
\* process, for every interleaving of the scheduler thread with requests to
\* /api/aave/liquidations/scan.
Executing(p) == scanner[p].pc \in {"load", "loop", "logs", "append", "locked"}

C19_OnePassAtATime == ~(Executing(1) /\ Executing(2))

\* C20: after a cancellation request raised while a pass is running, the pass
\* issues no further get_logs batch.
C20_NoBatchAfterCancel ==
    [][px.cancel =>
          \A p \in Procs : ~(scanner[p].pc = "loop" /\ scanner'[p].pc = "logs")]_vars

\* C21: when get_logs_chunked returns, the subranges it queried or skipped
\* are disjoint and adjacent, their union is [from_block, to_block], and every
\* log of a successfully queried subrange is in the returned list exactly once.
Occurrences(seq, x) == Cardinality({i \in DOMAIN seq : seq[i] = x})

InOkSubrange(c, l) == \E i \in DOMAIN c.done : c.done[i].ok /\ c.done[i].frm <= l[1] /\ l[1] <= c.done[i].to

C21_ChunksCoverRange ==
    px.pc = "chunk_done" =>
        LET n == Len(px.done)
        IN  /\ \A i \in 1..n : px.done[i].frm <= px.done[i].to
            /\ \A i \in 1..(n - 1) : px.done[i + 1].to = px.done[i].frm - 1
            /\ IF px.from_block > px.to_block THEN n = 0
               ELSE n > 0 /\ px.done[1].to = px.to_block /\ px.done[n].frm = px.from_block
            /\ \A i \in DOMAIN ChunkLogs :
                  Occurrences(px.logs, ChunkLogs[i]) =
                      IF InOkSubrange(px, ChunkLogs[i]) THEN 1 ELSE 0
            /\ Len(px.logs) = Cardinality({i \in DOMAIN ChunkLogs : InOkSubrange(px, ChunkLogs[i])})

\* a call that halved its chunk, skipped a subrange and returned logs
C21_Witness ==
    /\ px.pc = "chunk_done"
    /\ px.chunk < px.initial_chunk
    /\ \E i \in DOMAIN px.done : ~px.done[i].ok
    /\ Len(px.done) >= 3
    /\ Len(px.logs) >= 2

\* C22: a subrange whose query fails with an error that is not a range signal
\* is skipped only after the query has failed on every provider: the handler
\* that skips has seen one failed call per configured endpoint.
C22_SkipAfterAllProvidersFailed ==
    [][(px.pc = "chunk_loop" /\ px'.pc = "chunk_loop"
          /\ Len(px'.done) > Len(px.done) /\ ~px'.done[Len(px'.done)].ok)
         => px'.failures - px.failures >= NumEndpoints]_vars

\* C23 (as the code has it): the endpoints of one call are tried by ascending
\* error count, and among endpoints with the same error count in round-robin
\* order from the endpoint after the last successful one
C23_ErrorCountThenRotation ==
    px.pc = "pool" =>
        \A i \in 1..Len(px.tried), j \in 1..Len(px.tried) :
            i < j =>
                \/ px.before.error_count[px.tried[i]] < px.before.error_count[px.tried[j]]
                \/ /\ px.before.error_count[px.tried[i]] = px.before.error_count[px.tried[j]]
                   /\ RotatedIndex(px.before, px.tried[i]) < RotatedIndex(px.before, px.tried[j])

\* a call that tried the endpoint with fewer errors first although it comes
\* later in the rotation
C23_Witness ==
    /\ px.pc = "pool"
    /\ Len(px.tried) >= 2
    /\ px.before.error_count[px.tried[1]] < px.before.error_count[px.tried[2]]
    /\ RotatedIndex(px.before, px.tried[2]) < RotatedIndex(px.before, px.tried[1])

\* C23 (as stated): the endpoints of one call are tried in round-robin order,
\* whatever their error counts
C23_RotationFirst ==
    px.pc = "pool" =>
        \A i \in 1..Len(px.tried), j \in 1..Len(px.tried) :
            i < j => RotatedIndex(px.before, px.tried[i]) < RotatedIndex(px.before, px.tried[j])


\* the last call went through the endpoints (it did not return the cached
\* client)
Connected == px.pc = "pool" /\ px.returned /\ px.tried # << >>

TriedSet == {px.tried[k] : k \in 1..Len(px.tried)}

\* C24: a call that goes through the endpoints returns None exactly when every
\* endpoint failed; otherwise it returns the first endpoint in its order that
\* is connected and serves the expected chain, however many errors that
\* endpoint has; every endpoint that failed in the call has one error more,
\* the others as many as before
C24_NoneOnlyWhenAllFail ==
    Connected =>
        /\ px.client = 0 <=>
               \A e \in Endpoints : px.before.health[e] # "healthy"
        /\ px.client = 0 => TriedSet = Endpoints
        /\ \A k \in 1..Len(px.tried) :
               px.before.health[px.tried[k]] = "healthy" =>
                   k = Len(px.tried) /\ px.client = px.tried[k]
        /\ \A e \in Endpoints :
               px.error_count[e] =
                   px.before.error_count[e]
                       + (IF e \in TriedSet /\ e # px.client THEN 1 ELSE 0)

\* an endpoint that had failed in two calls is returned after another one
\* failed in this call
C24_Witness ==
    /\ Connected
    /\ px.client # 0
    /\ px.before.error_count[px.client] >= 2
    /\ Len(px.tried) >= 2

\* C25: the client a call returns, new or cached, reported the expected chain
\* id when it was connected; an endpoint that reports another chain id or none
\* is not returned, has one error more and the call goes on with the next
\* endpoint
C25_OnlyExpectedChain ==
    (px.pc = "pool" /\ px.returned) =>
        /\ px.client # 0 => px.client_chain = EXPECTED_CHAIN_ID
        /\ \A k \in 1..Len(px.tried) :
               px.before.health[px.tried[k]] \in {"wrong_chain", "no_chain"} =>
                   /\ px.tried[k] # px.client
                   /\ px.error_count[px.tried[k]] = px.before.error_count[px.tried[k]] + 1
                   /\ k = Len(px.tried) => (k = NumEndpoints /\ px.client = 0)

\* a call that passed over an endpoint of another chain and one whose chain id
\* cannot be read, or returned a cached client whose endpoint has moved to
\* another chain since
C25_Witness ==
    /\ px.pc = "pool"
    /\ px.returned
    /\ px.client # 0
    /\ \/ /\ px.tried = << >>
          /\ px.before.health[px.client] = "wrong_chain"
       \/ /\ Len(px.tried) >= 2
          /\ px.before.health[px.tried[1]] \in {"wrong_chain", "no_chain"}

\* C26: through a client of the pool every call is counted once: successes
\* and errors add up to the calls made, and there is one response time for
\* every success
C26_EveryCallCountedOnce ==
    (px.pc \in {"chunk_loop", "chunk_done"} /\ px.tracked) =>
        /\ px.success + px.errors = px.calls
        /\ px.times = px.success

\* C27: once both threads have finished recording, the counters of the
\* endpoint show every call: n successes and m errors
C27_NoLostUpdate ==
    (px.pc = "track" /\ \A w \in Procs : px.worker[w].at = "idle") =>
        px.success = px.n /\ px.errors = px.m

\* the payload the status file of data dir d should carry if it were computed
\* from the CSV
DerivedFromCsv(d) ==
    /\ status_file[d].events_found = CsvRowCount(csv[d])
    /\ status_file[d].from_block = StatusFromBlock(csv[d])

\* C28: whenever a pass rewrites the status file, the payload written has
\* events_found equal to the number of rows of the CSV and from_block equal to
\* the lowest block of the CSV, as they are when the write is done
C28_StatusDerivedFromCsv ==
    [][\A d \in DataDirs :
          status_file'[d] # status_file[d] =>
              /\ status_file'[d].events_found = CsvRowCount(csv'[d])
              /\ status_file'[d].from_block = StatusFromBlock(csv'[d])]_vars

\* C28, the fresh start: a pass that began on an empty CSV, appended rows and
\* completed leaves a status file with the row count and the lowest block of
\* the CSV
C28_FreshStartCompleted ==
    \A p \in Procs :
        (/\ scanner[p].result = "completed"
         /\ scanner[p].csv_row_count = 0
         /\ scanner[p].total_events_found > 0
         /\ status_file[fs[p]].status = "completed") => DerivedFromCsv(fs[p])

\* process p begins a pass whose resume block is past the tip
StartsPastTip(p) ==
    /\ scanner'[p].passes = scanner[p].passes + 1
    /\ ScanFromBlock(fs[p]) > head

C30_StatusNeverTorn ==
    px.pc = "status" => px.seen.written = "all"

\* the transactions with a row in the CSV of data dir d
TxsIn(d) == {TxOf(csv[d], r) : r \in Range(DictRows(csv[d]))}

\* C31: the CSV is changed by appends under the lock alone, so that no step
\* takes away the row of a transaction that a scanner has appended
C31_NoRowLost ==
    [][\A d \in DataDirs :
          TxsIn(d) \subseteq {TxOf(csv'[d], r) : r \in Range(DictRows(csv'[d]))}]_vars

\* the cell of row r under column c, and the empty cell of that column
Cell(r, c) ==
    CASE c = "block" -> r.block
      [] c = "collateral_price_usd_at_block" -> r.collateral_price_usd_at_block
      [] c = "debt_price_usd_at_block" -> r.debt_price_usd_at_block
      [] c = "collateral_value_usd" -> r.collateral_value_usd
      [] c = "debt_value_usd" -> r.debt_value_usd
      [] c = "tx" -> r.tx

\* the file the first call left is the file before it, remapped by column name
Remapped ==
    LET old == DictRows(px.before)
    IN  /\ px.first.exists
        /\ px.first.header = CSV_FIELD_ORDER
        /\ Len(px.first.rows) = Len(old)
        /\ \A i \in 1..Len(old) : \A c \in Range(CSV_FIELD_ORDER) :
               Cell(px.first.rows[i], c) =
                   IF c \in Range(px.before.header) THEN Cell(old[i], c)
                   ELSE Cell(NoRow, c)

\* C32: a CSV with the canonical header is left as it is; any other is
\* replaced by the canonical header and the same rows in the same order, each
\* column with the value the row had under that name, empty where the file had
\* no such column; a second call changes nothing
C32_ReconcileRemapsByName ==
    (px.pc = "reconcile" /\ px.calls > 0) =>
        /\ (~px.before.exists \/ px.before.header = CSV_FIELD_ORDER) =>
               px.first = px.before
        /\ (px.before.exists /\ px.before.header # CSV_FIELD_ORDER) => Remapped
        /\ csv[1] = px.first

\* the second call has run on a file with two rows, a foreign column and no
\* tx column
C32_Witness ==
    /\ px.pc = "reconcile"
    /\ px.calls = 2
    /\ "legacy" \in Range(px.before.header)
    /\ "tx" \notin Range(px.before.header)
    /\ Len(px.before.rows) = 2
    /\ csv[1].rows[1].tx = NoTx

\* the logs the first pass of process 1 was given
LogsOfPass == {i \in DOMAIN chain : chain[i].blockNumber <= scanner[1].latest_block}

\* the first pass has completed: the cursor is past the tip, no log that
\* failed to decode has a row and every other log of the range has one
DecodedRowsOnly ==
    (scanner[1].passes = 1 /\ scanner[1].result = "completed") =>
        /\ scanner[1].current_from = scanner[1].latest_block + 1
        /\ \A i \in LogsOfPass :
               TxHash(chain[i].transactionHash) \in TxsIn(1)
                   <=> chain[i].transactionHash \notin scanner[1].undecoded

\* C33: a log that fails to decode gets no row, the other logs of the batch
\* get theirs, the cursor moves past the batch and the pass completes
C33_DecodeFailureSkipsOneLog ==
    /\ []DecodedRowsOnly
    /\ (scanner[1].undecoded # {}) ~> (scanner[1].result = "completed")

\* a completed pass in which one log of a batch failed to decode and a later
\* log of the same batch was appended
C33_Witness ==
    /\ scanner[1].passes = 1
    /\ scanner[1].result = "completed"
    /\ \E i \in LogsOfPass, j \in LogsOfPass :
          /\ i < j
          /\ chain[i].transactionHash \in scanner[1].undecoded
          /\ TxHash(chain[j].transactionHash) \in TxsIn(1)

\* the blocks of the rows of data dir 1 never go down in file order
BlocksInOrder ==
    \A i \in 1..Len(csv[1].rows), j \in 1..Len(csv[1].rows) :
        i < j => csv[1].rows[i].block <= csv[1].rows[j].block

\* a row is appended behind rows of no higher block, and behind rows that were
\* there when the pass began only with a higher block
AppendedBehind ==
    Len(csv'[1].rows) = Len(csv[1].rows) + 1 =>
        \A i \in 1..Len(csv[1].rows) :
            /\ csv'[1].rows[i] = csv[1].rows[i]
            /\ csv[1].rows[i].block <= csv'[1].rows[Len(csv'[1].rows)].block
            /\ i <= scanner[1].csv_row_count =>
                   csv[1].rows[i].block < csv'[1].rows[Len(csv'[1].rows)].block

\* C34: with one scanner running its passes one after the other, the blocks of
\* the CSV rows never decrease in file order, and a later pass appends only
\* rows of blocks higher than every block the CSV held when it began
C34_RowsInBlockOrder == []BlocksInOrder /\ [][AppendedBehind]_vars

\* the second pass has appended a row behind the rows of the first
C34_Witness ==
    /\ scanner[1].passes = 2
    /\ scanner[1].csv_row_count >= 1
    /\ Len(csv[1].rows) > scanner[1].csv_row_count

\* C35: get_logs_chunked returns, also when the provider rejects every range
\* as too large
C35_ChunkedTerminates == <>(px.pc = "chunk_done")

\* base_price * min(current_ratio, max_ratio) / 10^ratio_decimals of the call
\* px.a, as a fraction: max_ratio = snapshot_ratio + snapshot_ratio *
\* max_yearly_bps * elapsed / (10000 * a year), a year being 4 units of time
CappedValue ==
    LET a == px.a
        elapsed == IF a.event_ts > a.snapshot_ts THEN a.event_ts - a.snapshot_ts ELSE 0
        max_num == a.snapshot_ratio * (40000 + a.max_yearly_ratio_bps * elapsed)
        min_num == IF a.current_ratio * 40000 <= max_num THEN a.current_ratio * 40000
                   ELSE max_num
    IN  [num |-> a.base_price * min_num, den |-> 40000 * Pow10(a.ratio_decimals)]

\* C36: the result is 0 for a snapshot ratio of 0; otherwise it is
\* base_price * min(current_ratio, max_ratio) / 10^ratio_decimals rounded to
\* the nearest quantum, and it does not go down when the event time goes up
C36_CapPriceFormula ==
    px.pc = "cap_done" =>
        /\ px.a.snapshot_ratio = 0 => px.res = 0
        /\ px.a.snapshot_ratio # 0 =>
               /\ 2 * (px.res * CappedValue.den - CappedValue.num) <= CappedValue.den
               /\ 2 * (CappedValue.num - px.res * CappedValue.den) <= CappedValue.den
        /\ px.res <= px.res_later

\* a call before the snapshot whose price is the uncapped one, and a later
\* call with the same arguments whose price is capped and higher
C36_Witness ==
    /\ px.pc = "cap_done"
    /\ px.a.snapshot_ratio # 0
    /\ px.a.event_ts < px.a.snapshot_ts
    /\ px.a.max_yearly_ratio_bps > 0
    /\ px.a.current_ratio > px.a.snapshot_ratio
    /\ px.res < px.res_later

\* the forward loop of scanner 1 has ended and the batch verification is next
LoopEnded ==
    scanner[1].pc = "loop" /\ scanner[1].current_from > scanner[1].latest_block

\* the recorded ranges sorted by start run from the resume block to the tip
\* with every start at most one past the previous end
RangesCover ==
    LET sc == scanner[1]
        sorted == SortedRanges(sc.scanned_ranges)
    IN  /\ sorted # << >>
        /\ sorted[1][1] = sc.scan_from_block
        /\ \A i \in 2..Len(sorted) : sorted[i][1] <= sorted[i - 1][2] + 1
        /\ \E i \in DOMAIN sorted : sorted[i][2] = sc.latest_block
        /\ \A i \in DOMAIN sorted : sorted[i][2] <= sc.latest_block

\* inside the loop the cursor moves only when a fetched batch has been
\* processed, and then to one past the end of the range recorded last
CursorMovesAfterSuccess ==
    LET sc == scanner[1]
        n == Len(sc.scanned_ranges)
    IN  (sc.pc \in {"loop", "logs", "append", "locked"}
            /\ scanner'[1].current_from # sc.current_from)
        => /\ sc.pc = "logs"
           /\ n > 0
           /\ sc.scanned_ranges[n] = <<sc.current_from, sc.current_to>>
           /\ scanner'[1].current_from = sc.current_to + 1

\* C37: the cursor of the forward sweep changes only after a successful
\* get_logs, to current_to + 1, and a failed request leaves it alone; when the
\* loop ends the ranges sorted by start cover resume block .. tip without a
\* gap, so the gap list is empty and gap filling is not entered
C37_SweepLeavesNoGap ==
    /\ [](LoopEnded => RangesCover /\ GapsFound(scanner[1].scanned_ranges) = {})
    /\ [][CursorMovesAfterSuccess]_vars

\* the loop has ended after failed requests and more than one recorded range
C37_Witness ==
    /\ LoopEnded
    /\ scanner[1].failed_requests >= 2
    /\ scanner[1].limit_observed
    /\ Len(scanner[1].scanned_ranges) >= 2

\* the first log of the chain that belongs to transaction tx
FirstLogOf(tx) ==
    chain[SetMin({i \in DOMAIN chain : chain[i].transactionHash = tx})]

\* the transactions in the range of the pass that had no row when it started
NewTxs ==
    {l.transactionHash : l \in InRange(1)} \
        {Rows(1)[i].tx.id : i \in 1..scanner[1].total_events_in_csv}

\* no transaction has two rows; a completed pass has left, for every
\* transaction of its range, the row of that transaction's first log, and has
\* appended as many rows as its range held new transactions
OneRowPerTx ==
    /\ \A l \in Range(chain) : Cardinality(RowsOf(1, l)) <= 1
    /\ Completed(1) =>
          /\ \A l \in InRange(1) :
                \E i \in DOMAIN Rows(1) : Rows(1)[i] = EventRow(FirstLogOf(l.transactionHash))
          /\ scanner[1].total_events_found - scanner[1].total_events_in_csv
                 = Cardinality(NewTxs)
          /\ Len(Rows(1)) = scanner[1].total_events_found

\* a log whose transaction has a row already is dropped at the duplicate check
\* and never reaches the append
LaterLogSkipped ==
    LET sc == scanner[1]
    IN  (sc.pc = "logs" /\ sc.batch_logs # << >> /\ HasRow(1, Head(sc.batch_logs))
            /\ scanner'[1] # sc)
        => scanner'[1] = [sc EXCEPT !.batch_logs = Tail(sc.batch_logs)]

\* C38: of several logs that share a transaction hash the first gets a row and
\* the later ones are skipped as duplicates, so the CSV holds one row for the
\* transaction and a pass appends one row per distinct new transaction hash
C38_OneRowPerSharedTx == []OneRowPerTx /\ [][LaterLogSkipped]_vars

\* a completed pass over a range in which three or more logs made up two
\* transactions, both new
C38_Witness ==
    /\ Completed(1)
    /\ Cardinality(InRange(1)) >= 3
    /\ Cardinality(NewTxs) = 2
    /\ Len(Rows(1)) = 2

\* two calls have been made on a path that held no header line, the second
\* with the transaction of the row the first one wrote
SecondCallOnBareFile ==
    /\ scanner[1].passes = 2
    /\ csv[1].header = << >>
    /\ csv[1].rows # << >>
    /\ Lower(csv[1].rows[1].tx) = Lower(scanner[1].row.tx)

\* C39: two calls of append_row_if_tx_missing with the same non-empty tx on a
\* path whose file is missing or zero bytes write the row once: the second
\* call returns False and the file holds a single data row
C39_SecondCallReturnsFalse ==
    SecondCallOnBareFile => ~scanner[1].appended /\ Len(csv[1].rows) = 1

====
